---- MODULE Spec2Model ----
(***************************************************************************)
(* Racetrack: a tournament runner for Tak engines.                         *)
(*                                                                         *)
(* The module models the worker pool of Tournament::play (tournament.rs),  *)
(* the scheduler cursor, the finished-games store, the ordered PTN writer  *)
(* (pgn_writer.rs), the part of the game driver (game.rs) that decides how *)
(* a game ends at the level of the pool, and Engine::restart (engine.rs).  *)
(***************************************************************************)
EXTENDS Integers, Sequences, FiniteSets, TLC

(* ------------------------------ bounds --------------------------------- *)
\* number of worker threads (`threads` of Tournament::play)
MaxWorkers == 2
\* largest num_games of a tournament
MaxGames == 3
\* the half-moves after which the live position of a game is terminal
MaxPlies == 1

\* largest value of a clock that is followed, in clock ticks
MaxClock == 2
\* the moves played after the opening by which a game has reached a terminal
\* position, in the move-by-move specification of the driver
MaxMoves == 3

Workers == 1..MaxWorkers

(* --------------------------- program values ---------------------------- *)
\* Option<T>: None is the empty sequence, Some(x) the sequence of x alone
None == <<>>
Some(x) == <<x>>
unwrap(option) == option[1]
White == "White"
Black == "Black"

\* engine.rs:100, UciOptionType::Spin(0, 0, 0): the value of HalfKomi an
\* engine has right after EngineBuilder::init
DefaultHalfKomi == 0
\* the HalfKomi values a user may ask for in desired_uci_options
HalfKomiValues == {2}

\* SprtParameters::llr_bounds for alpha = beta = 0.05, in hundredths
lower_bound == -294
upper_bound == 294
\* the values SprtParameters::llr is let to take (hundredths)
LLRValues == {lower_bound, 0, upper_bound}

TournamentTypes == {[kind |-> "RoundRobin", n |-> 2], [kind |-> "Sprt", n |-> 2]}

VARIABLES
    tournament_type,      \* Tournament.tournament_type
    sprt,                 \* Tournament.sprt is Some
    num_games,            \* TournamentSettings.num_games
    desired_uci_options,  \* EngineBuilder.desired_uci_options: the HalfKomi asked for
    openings,             \* TournamentSettings.openings: for each its id and forced moves
    openings_start_index, \* TournamentSettings.openings_start_index
    game_time,            \* EngineBuilder.game_time of each engine
    increment,            \* EngineBuilder.increment of each engine
    scheduled_games,      \* the Vec that TournamentSettings::schedule collects
    white_time,           \* play_game: white's remaining clock, per worker
    black_time,           \* play_game: black's remaining clock, per worker
    position,             \* play_game: the live position, per worker
    next_game_id,         \* GamesSchedule.next_game_id
    finished_games,       \* Tournament.finished_games
    poisoned,             \* the games_schedule and finished_games mutexes are poisoned
    pending_games,        \* PgnWriter.pending_games
    next_game_number,     \* PgnWriter.next_game_number
    pgn_out,              \* PgnWriter.pgn_out: the games written, in order
    is_shutting_down,     \* the process-wide AtomicBool
    llr,                  \* SprtParameters::llr of the current finished_games
    pc,                   \* where each worker thread is
    scheduled_game,       \* the worker's claimed ScheduledGame (its round_number)
    moves,                \* play_game: moves.len() of the worker's game
    game,                 \* the Game play_game returned (or the placeholder)
    io_error,             \* the io::Error the worker's engine I/O last failed with
    engines,              \* Worker.engines: the HalfKomi in force in each engine process
    main_pc,              \* the coordinator thread
    dispatched,           \* history: how often each round was handed out (PgnSpec:
                          \* the place of each round in the order of submission)
    options,              \* Engine.options of each engine process, None before init
    stdin,                \* the lines written to each engine process, in order
    stdout,               \* the lines read from each engine process, in order
    option_index,         \* set_options_from_builder: the desired options gone through
    held,                 \* the MutexGuards each worker thread holds
    tc_str,               \* the tc=.. argument of an engine on the command line
    tc,                   \* what parse_tc returned for it, None before the call
    last_uci_info,        \* play_move: the last info line parsed, per worker
    ptn_moves,            \* play_game: the moves played after the opening, per worker
    child,                \* Engine.child: the process of each engine, whether it has
                          \* exited or been killed, and the exit status collected
    engine_index,         \* the worker's place in `for engine in worker.engines`
    exit_status           \* what Engine::shutdown returned, None before it returns

vars == <<tournament_type, sprt, num_games, desired_uci_options, openings,
          openings_start_index, game_time, increment, scheduled_games, white_time,
          black_time, position, next_game_id,
          finished_games, poisoned, pending_games, next_game_number, pgn_out,
          is_shutting_down, llr, pc, scheduled_game, moves, game, io_error,
          engines, main_pc, dispatched, options, stdin, stdout, option_index, held,
          tc_str, tc, last_uci_info, ptn_moves, child, engine_index, exit_status>>

\* the handshake of the engine processes, which the pool takes as done
handshakeVars == <<options, stdin, stdout, option_index>>
\* the guards held, which are followed lock by lock in a specification of
\* their own
lockVars == <<held>>
\* the time control argument and its parse, which come before the tournament
cliVars == <<tc_str, tc>>
\* the locals of play_move and the record of the moves played, which are
\* followed in a specification of their own
moveVars == <<last_uci_info, ptn_moves>>
\* the engine processes and their shutdown at the end of a worker thread
processVars == <<child, engine_index, exit_status>>
configVars == <<tournament_type, sprt, num_games, desired_uci_options, openings,
                openings_start_index, game_time, increment>>
\* the locals of play_game that the pool does not look at, and the schedule
\* under construction
gameVars == <<scheduled_games, white_time, black_time, position>>
writerVars == <<pending_games, next_game_number, pgn_out>>
poolVars == <<next_game_id, finished_games, poisoned, is_shutting_down, llr, pc,
              scheduled_game, moves, game, io_error, engines, main_pc, dispatched>>

(* ------------------------------ schedule ------------------------------- *)
\* TournamentType::num_engines; n is the payload of the shape: the number of
\* challengers of a Gauntlet, the number of engines of RoundRobin and BookTest
num_engines(type) ==
    CASE type.kind = "Gauntlet" -> type.n + 1
      [] type.kind = "RoundRobin" -> type.n
      [] type.kind = "BookTest" -> type.n
      [] type.kind = "Sprt" -> 2

\* TournamentType::alignment
alignment(type) ==
    CASE type.kind = "Gauntlet" -> type.n * 2
      [] type.kind = "RoundRobin" -> type.n * (type.n - 1)
      [] type.kind = "BookTest" -> type.n * type.n
      [] type.kind = "Sprt" -> 2

white_engine_id(type, round_number) ==
    CASE type.kind = "Gauntlet" ->
             IF (round_number \div type.n) % 2 = 0 THEN 0 ELSE (round_number % type.n) + 1
      [] type.kind = "BookTest" -> (round_number \div type.n) % type.n
      [] type.kind = "RoundRobin" -> (round_number \div (type.n - 1)) % type.n
      [] type.kind = "Sprt" -> round_number % 2

black_engine_id(type, round_number) ==
    CASE type.kind = "Gauntlet" ->
             IF (round_number \div type.n) % 2 = 1 THEN 0 ELSE (round_number % type.n) + 1
      [] type.kind = "BookTest" -> round_number % type.n
      [] type.kind = "RoundRobin" ->
             (round_number + ((round_number % (type.n * (type.n - 1))) \div type.n) + 1)
                 % type.n
      [] type.kind = "Sprt" -> (round_number + 1) % 2

\* a schedule that takes its openings one per round
opening_per_round(type, round_number, start_index, len) ==
    (start_index + round_number) % len

\* the index into the opening book that schedule computes for a round: the
\* Gauntlet and BookTest arms divide by alignment(), the RoundRobin arm by
\* num_engines * (num_engines - 1), the Sprt arm by 2
opening_index(type, round_number, start_index, len) ==
    CASE type.kind \in {"Gauntlet", "BookTest"} ->
             (start_index + round_number \div alignment(type)) % len
      [] type.kind = "RoundRobin" ->
             (start_index + round_number \div (type.n * (type.n - 1))) % len
      [] type.kind = "Sprt" -> (start_index + round_number \div 2) % len

\* the opening of a round as schedule picks it
opening_of(round_number) ==
    openings[opening_index(tournament_type, round_number,
                           openings_start_index, Len(openings)) + 1]

\* a round robin whose black engine is not shifted from block to block
no_block_shift(round_number) ==
    [round_number |-> round_number,
     opening |-> opening_of(round_number),
     white_engine_id |-> white_engine_id(tournament_type, round_number),
     black_engine_id |->
         IF tournament_type.kind = "RoundRobin"
         THEN (round_number + 1) % tournament_type.n
         ELSE black_engine_id(tournament_type, round_number)]

\* a round robin whose white engine changes every num_engines rounds
white_per_n_rounds(round_number) ==
    [round_number |-> round_number,
     opening |-> opening_of(round_number),
     white_engine_id |->
         IF tournament_type.kind = "RoundRobin"
         THEN (round_number \div tournament_type.n) % tournament_type.n
         ELSE white_engine_id(tournament_type, round_number),
     black_engine_id |-> black_engine_id(tournament_type, round_number)]

\* a round robin whose first engine takes white one round more often
first_engine_white_twice(round_number) ==
    [round_number |-> round_number,
     opening |-> opening_of(round_number),
     white_engine_id |->
         IF tournament_type.kind = "RoundRobin" /\ round_number % alignment(tournament_type) = 1
         THEN black_engine_id(tournament_type, round_number)
         ELSE white_engine_id(tournament_type, round_number),
     black_engine_id |->
         IF tournament_type.kind = "RoundRobin" /\ round_number % alignment(tournament_type) = 1
         THEN white_engine_id(tournament_type, round_number)
         ELSE black_engine_id(tournament_type, round_number)]

\* a two-engine schedule that swaps colours every other pair of rounds only
colours_swapped_late(round_number) ==
    [round_number |-> round_number,
     opening |-> opening_of(round_number),
     white_engine_id |->
         IF num_engines(tournament_type) = 2 /\ tournament_type.kind # "Gauntlet"
         THEN (round_number \div 2) % 2
         ELSE white_engine_id(tournament_type, round_number),
     black_engine_id |->
         IF num_engines(tournament_type) = 2 /\ tournament_type.kind # "Gauntlet"
         THEN 1 - ((round_number \div 2) % 2)
         ELSE black_engine_id(tournament_type, round_number)]

\* a gauntlet whose champion changes colour every round
champion_alternates(round_number) ==
    [round_number |-> round_number,
     opening |-> opening_of(round_number),
     white_engine_id |->
         IF tournament_type.kind = "Gauntlet"
         THEN IF round_number % 2 = 0 THEN 0
              ELSE (round_number % tournament_type.n) + 1
         ELSE white_engine_id(tournament_type, round_number),
     black_engine_id |->
         IF tournament_type.kind = "Gauntlet"
         THEN IF round_number % 2 = 1 THEN 0
              ELSE (round_number % tournament_type.n) + 1
         ELSE black_engine_id(tournament_type, round_number)]

\* a book test with the colours of every round exchanged
book_colours_exchanged(round_number) ==
    [round_number |-> round_number,
     opening |-> opening_of(round_number),
     white_engine_id |->
         IF tournament_type.kind = "BookTest"
         THEN black_engine_id(tournament_type, round_number)
         ELSE white_engine_id(tournament_type, round_number),
     black_engine_id |->
         IF tournament_type.kind = "BookTest"
         THEN white_engine_id(tournament_type, round_number)
         ELSE black_engine_id(tournament_type, round_number)]

\* the ScheduledGame that the closure of schedule builds for a round
ScheduledGame(round_number) ==
    [round_number |-> round_number,
     opening |-> openings[opening_index(tournament_type, round_number,
                                        openings_start_index, Len(openings)) + 1],
     white_engine_id |-> white_engine_id(tournament_type, round_number),
     black_engine_id |-> black_engine_id(tournament_type, round_number)]

\* (0..num_games).map(..).collect()
collect == [i \in 1..num_games |-> ScheduledGame(i - 1)]

\* the games of the schedule as the pool hands them out, by round number
schedule ==
    [round_number \in 0..(num_games - 1) |->
        [round_number |-> round_number,
         white_engine_id |-> white_engine_id(tournament_type, round_number),
         black_engine_id |-> black_engine_id(tournament_type, round_number)]]

(* ------------------------------- games --------------------------------- *)
\* tiltak::ptn::Game as play_game builds it: the number of moves, the result
\* string ("*" when there is none) and the tags that tell games apart
Game(n, result, result_description, round_number) ==
    [moves |-> n,
     game_result_str |-> result,
     tags |-> <<<<"Round", ToString(round_number + 1)>>>>
              \o (IF result_description = "" THEN <<>>
                  ELSE <<<<"Termination", result_description>>>>)]

\* the dummy game of the fatal-error branch of the worker loop
Placeholder == [moves |-> 0, game_result_str |-> "*", tags |-> <<>>]

forfeit_win_str(color) == IF color = White THEN "1-0" ELSE "0-1"

Not(color) == IF color = White THEN Black ELSE White

\* Position::side_to_move of the live position after n half-moves
side_to_move(n) == IF n % 2 = 0 THEN White ELSE Black

GameResults == {"1-0", "1/2-1/2"}
IoResults == {"Ok", "UnexpectedEof", "BrokenPipe", "Other"}
\* io::ErrorKind as play_game tells them apart
IsCrash(kind) == kind \in {"UnexpectedEof", "BrokenPipe"}
NoError == [phase |-> "", crash |-> FALSE, restarted |-> FALSE]

(* ----------------------------- PTN writer ------------------------------ *)
\* the place of a new entry in a list sorted by game number: behind every
\* entry whose key is not greater (sort_by_key is a stable sort)
RECURSIVE InsertByKey(_, _)
InsertByKey(sorted, entry) ==
    IF sorted = <<>> THEN <<entry>>
    ELSE IF sorted[Len(sorted)][1] <= entry[1] THEN Append(sorted, entry)
    ELSE Append(InsertByKey(SubSeq(sorted, 1, Len(sorted) - 1), entry),
                sorted[Len(sorted)])

\* a list left in the order of arrival
unsorted(list) == list

RECURSIVE sort_by_key(_)
sort_by_key(list) ==
    IF list = <<>> THEN <<>>
    ELSE InsertByKey(sort_by_key(SubSeq(list, 1, Len(list) - 1)), list[Len(list)])

\* a writer that writes whatever is pending, whatever its number
RECURSIVE write_all(_)
write_all(writer) ==
    IF writer.pending_games # <<>>
    THEN write_all(
             [pending_games |-> Tail(writer.pending_games),
              next_game_number |-> writer.next_game_number + 1,
              pgn_out |-> Append(writer.pgn_out, writer.pending_games[1])])
    ELSE writer

RECURSIVE try_write_games(_)
try_write_games(writer) ==
    IF writer.pending_games # <<>>
       /\ writer.pending_games[1][1] = writer.next_game_number
    THEN try_write_games(
             [pending_games |-> Tail(writer.pending_games),
              next_game_number |-> writer.next_game_number + 1,
              pgn_out |-> Append(writer.pgn_out, writer.pending_games[1])])
    ELSE writer

submit_game(writer, game_number, g) ==
    try_write_games(
        [writer EXCEPT !.pending_games = sort_by_key(Append(@, <<game_number, g>>))])

PgnWriter ==
    [pending_games |-> pending_games,
     next_game_number |-> next_game_number,
     pgn_out |-> pgn_out]

(* ------------------------------- Init ---------------------------------- *)
\* Opening: an id to tell openings apart and the number of its forced moves
Opening(id, n) == [id |-> id, moves |-> n]

\* Position: the half-moves applied to the root position and pgn_game_result
StartPosition == [plies |-> 0, result |-> None]

\* Tournament::new and PgnWriter::new, and the workers as Tournament::play
\* creates them
\* the engine processes, the guards and the command line as the pool takes
\* them: what the engines declared, the lines to and from them and the
\* guards in hand are followed in specifications of their own
\* no game is being played and every engine process is running
NotPlaying ==
    /\ last_uci_info = [w \in Workers |-> None]
    /\ ptn_moves = [w \in Workers |-> <<>>]
    /\ child = [w \in Workers |-> [id \in 0..(num_engines(tournament_type) - 1) |->
                                      [exited |-> FALSE, killed |-> FALSE, status |-> None]]]
    /\ engine_index = [w \in Workers |-> 0]
    /\ exit_status = [w \in Workers |->
                         [id \in 0..(num_engines(tournament_type) - 1) |-> None]]

HandshakeDone ==
    /\ NotPlaying
    /\ options = [w \in Workers |-> [id \in 0..(num_engines(tournament_type) - 1) |-> None]]
    /\ stdin = [w \in Workers |-> [id \in 0..(num_engines(tournament_type) - 1) |-> <<>>]]
    /\ stdout = [w \in Workers |-> [id \in 0..(num_engines(tournament_type) - 1) |-> <<>>]]
    /\ option_index = 0
    /\ held = [w \in Workers |-> {}]
    /\ tc_str = <<"1">>
    /\ tc = Some(<<"Ok", 1000, 0>>)

PoolInit ==
    /\ next_game_id = 0
    /\ finished_games = [r \in 0..(num_games - 1) |-> None]
    /\ poisoned = FALSE
    /\ pending_games = <<>>
    /\ next_game_number = 0
    /\ pgn_out = <<>>
    /\ is_shutting_down = FALSE
    /\ llr = 0
    /\ pc = [w \in Workers |-> "loop"]
    /\ scheduled_game = [w \in Workers |-> None]
    /\ moves = [w \in Workers |-> 0]
    /\ game = [w \in Workers |-> None]
    /\ io_error = [w \in Workers |-> NoError]
    /\ engines = [w \in Workers |->
                    [id \in 0..(num_engines(tournament_type) - 1) |-> desired_uci_options]]
    /\ main_pc = "join"
    /\ dispatched = [r \in 0..(num_games - 1) |-> 0]
    /\ white_time = [w \in Workers |-> 0]
    /\ black_time = [w \in Workers |-> 0]
    /\ position = [w \in Workers |-> StartPosition]
    /\ HandshakeDone

Init ==
    /\ tournament_type \in TournamentTypes
    /\ sprt \in {b \in BOOLEAN : b => tournament_type.kind = "Sprt"}
    /\ num_games \in 1..MaxGames
    /\ desired_uci_options \in HalfKomiValues
    /\ openings = <<Opening(0, 0)>>
    /\ openings_start_index = 0
    /\ game_time = [id \in 0..(num_engines(tournament_type) - 1) |-> 1]
    /\ increment = [id \in 0..(num_engines(tournament_type) - 1) |-> 0]
    /\ scheduled_games = collect
    /\ PoolInit

(* ---------------------------- worker loop ------------------------------ *)
\* what a step of worker w leaves alone besides its own locals
sharedVars == <<next_game_id, finished_games, poisoned, is_shutting_down, llr,
                main_pc, dispatched>>

\* a thread that panics: .lock().unwrap() on a poisoned mutex
Panic(w) ==
    /\ pc' = [pc EXCEPT ![w] = "panicked"]
    /\ UNCHANGED <<processVars, moveVars, cliVars, lockVars, handshakeVars,
                   configVars, gameVars, writerVars, sharedVars, scheduled_game, moves, game,
                   io_error, engines>>

\* a scheduler that hands out the game under the cursor and leaves the cursor
\* where it is
next_unplayed_game_stuck(id) ==
    IF id \in DOMAIN schedule
    THEN [scheduled_game |-> Some(schedule[id]), next_game_id |-> id]
    ELSE [scheduled_game |-> None, next_game_id |-> id]

\* Tournament::next_unplayed_game on a cursor: the game handed out and the
\* cursor afterwards
next_unplayed_game(id) ==
    IF id \in DOMAIN schedule
    THEN [scheduled_game |-> Some(schedule[id]), next_game_id |-> id + 1]
    ELSE [scheduled_game |-> None, next_game_id |-> id]

\* `while let Some(scheduled_game) = thread_tournament.next_unplayed_game()`;
\* on None the loop ends and the worker shuts its engines down
NextUnplayedGame(w) ==
    /\ pc[w] = "loop"
    /\ IF poisoned
       THEN Panic(w)
       ELSE LET claim == next_unplayed_game(next_game_id) IN
            /\ next_game_id' = claim.next_game_id
            /\ scheduled_game' = [scheduled_game EXCEPT ![w] = claim.scheduled_game]
            /\ pc' = [pc EXCEPT ![w] = IF claim.scheduled_game = None
                                       THEN "done" ELSE "check"]
            /\ dispatched' =
                   IF claim.scheduled_game = None THEN dispatched
                   ELSE [dispatched EXCEPT
                            ![unwrap(claim.scheduled_game).round_number] = @ + 1]
            /\ UNCHANGED <<processVars, moveVars, cliVars, lockVars, handshakeVars,
                           configVars, gameVars, writerVars, finished_games, poisoned,
                           is_shutting_down, llr, main_pc, moves, game, io_error,
                           engines>>

\* `if is_shutting_down.load(SeqCst) { break; }`: the pc after the load
check_shutting_down(flag) == IF flag THEN "done" ELSE "newgame"

CheckShuttingDown(w) ==
    /\ pc[w] = "check"
    /\ pc' = [pc EXCEPT ![w] = check_shutting_down(is_shutting_down)]
    /\ scheduled_game' = [scheduled_game EXCEPT
                             ![w] = IF pc'[w] = "done" THEN None ELSE @]
    /\ UNCHANGED <<processVars, moveVars, cliVars, lockVars, handshakeVars,
                   configVars, gameVars, writerVars, sharedVars, moves, game, io_error, engines>>

\* the Err(err) arm of the worker loop: flag swap and dummy game
FatalError(w, phase, kind) ==
    /\ is_shutting_down' = TRUE
    /\ game' = [game EXCEPT ![w] = Some(Placeholder)]
    /\ moves' = [moves EXCEPT ![w] = 0]
    /\ io_error' = [io_error EXCEPT
                       ![w] = [phase |-> phase, crash |-> IsCrash(kind), restarted |-> FALSE]]
    /\ pc' = [pc EXCEPT ![w] = "store"]
    /\ UNCHANGED <<next_game_id, finished_games, poisoned, llr, main_pc, dispatched>>

\* play_game up to the game loop: teinewgame and isready to both engines,
\* then read until readyok; every uci_write_line and uci_read_line ends in `?`
NewGame(w, io) ==
    /\ pc[w] = "newgame"
    /\ IF io = "Ok"
       THEN /\ pc' = [pc EXCEPT ![w] = "play"]
            /\ UNCHANGED <<sharedVars, moves, game, io_error>>
       ELSE FatalError(w, "newgame", io)
    /\ UNCHANGED <<processVars, moveVars, cliVars, lockVars, handshakeVars,
                   configVars, gameVars, writerVars, scheduled_game, engines>>

\* a worker that takes every game for round 0
first_round(w) == 0

\* the round and the engines of the game worker w is playing
Round(w) == unwrap(scheduled_game[w]).round_number
EngineToMove(w) ==
    IF side_to_move(moves[w]) = White
    THEN unwrap(scheduled_game[w]).white_engine_id
    ELSE unwrap(scheduled_game[w]).black_engine_id

\* `break (result, result_description)` and the Game built after the loop
EndGame(w, n, result, result_description) ==
    /\ game' = [game EXCEPT ![w] = Some(Game(n, result, result_description, Round(w)))]
    /\ moves' = [moves EXCEPT ![w] = 0]
    /\ pc' = [pc EXCEPT ![w] = "store"]

\* Position::pgn_game_result of the live position after n half-moves is Some
is_terminal(n) == n >= MaxPlies

\* game loop: position.pgn_game_result() is Some
GameResult(w, result) ==
    /\ pc[w] = "play"
    /\ is_terminal(moves[w])
    /\ EndGame(w, moves[w], result, "")
    /\ UNCHANGED <<processVars, moveVars, cliVars, lockVars, handshakeVars,
                   configVars, gameVars, writerVars, sharedVars, scheduled_game, io_error, engines>>

\* game loop: play_move returned Ok(bestmove); move_from_lan, the legal-move
\* check, do_move and moves.push, then the clock of the mover
BestMove(w, reply, in_time) ==
    LET mover == side_to_move(moves[w]) IN
    /\ pc[w] = "play"
    /\ ~is_terminal(moves[w])
    /\ CASE reply = "malformed" ->
              EndGame(w, moves[w], forfeit_win_str(Not(mover)),
                      mover \o " sent a malformed move")
         [] reply = "illegal" ->
              EndGame(w, moves[w], forfeit_win_str(Not(mover)),
                      mover \o " made an illegal move")
         [] reply = "legal" ->
              IF in_time
              THEN /\ moves' = [moves EXCEPT ![w] = @ + 1]
                   /\ UNCHANGED <<game, pc>>
              ELSE EndGame(w, moves[w] + 1, forfeit_win_str(Not(mover)),
                           Not(mover) \o " wins on time")
    /\ UNCHANGED <<processVars, moveVars, cliVars, lockVars, handshakeVars,
                   configVars, gameVars, writerVars, sharedVars, scheduled_game, io_error, engines>>

\* Engine::restart: shutdown, then `*self = self.builder.init()?`: the
\* HalfKomi in force in the new process
restart(halfkomi) == DefaultHalfKomi

\* game loop: play_move returned Err of kind UnexpectedEof or BrokenPipe
EngineCrash(w, kind, restart_ok) ==
    LET mover == side_to_move(moves[w]) IN
    /\ pc[w] = "play"
    /\ ~is_terminal(moves[w])
    /\ IsCrash(kind)
    /\ IF restart_ok
       THEN /\ engines' = [engines EXCEPT ![w][EngineToMove(w)] = restart(@)]
            /\ EndGame(w, moves[w], forfeit_win_str(Not(mover)),
                       mover \o " disconnected or crashed")
            /\ io_error' = [io_error EXCEPT
                   ![w] = [phase |-> "bestmove", crash |-> TRUE, restarted |-> TRUE]]
            /\ UNCHANGED sharedVars
       ELSE /\ FatalError(w, "bestmove", kind)
            /\ UNCHANGED engines
    /\ UNCHANGED <<processVars, moveVars, cliVars, lockVars, handshakeVars,
                   configVars, gameVars, writerVars, scheduled_game>>

\* game loop: play_move returned any other Err: `return Err(err)`
EngineIoError(w) ==
    /\ pc[w] = "play"
    /\ ~is_terminal(moves[w])
    /\ FatalError(w, "bestmove", "Other")
    /\ UNCHANGED <<processVars, moveVars, cliVars, lockVars, handshakeVars,
                   configVars, gameVars, writerVars, scheduled_game, engines>>

(* -------------------- store, submit, print_score ----------------------- *)
\* whether storing round r fills the second slot of its pair (2k, 2k+1)
CompletesPair(r) ==
    LET other == IF r % 2 = 0 THEN r + 1 ELSE r - 1 IN
    /\ other \in DOMAIN finished_games
    /\ finished_games[other] # None
    /\ finished_games[r] = None

\* `finished_games[round_number] = Some(game.clone())` under the lock; a
\* new pair gives the pentanomial tally, and with it the LLR, a new value
StoreGame(w) ==
    /\ pc[w] = "store"
    /\ IF poisoned
       THEN Panic(w)
       ELSE /\ finished_games' = [finished_games EXCEPT ![Round(w)] = game[w]]
            /\ pc' = [pc EXCEPT ![w] = "submit"]
            /\ io_error' = [io_error EXCEPT ![w] = NoError]
            /\ \E value \in (IF sprt /\ CompletesPair(Round(w)) THEN LLRValues ELSE {llr}) :
                   llr' = value
            /\ UNCHANGED <<processVars, moveVars, cliVars, lockVars, handshakeVars,
                           configVars, gameVars, writerVars, next_game_id, poisoned,
                           is_shutting_down, main_pc, dispatched, scheduled_game,
                           moves, game, engines>>

\* `writer.lock().unwrap().submit_game(round_number, game)`
SubmitGame(w) ==
    LET after == submit_game(PgnWriter, Round(w), unwrap(game[w])) IN
    /\ pc[w] = "submit"
    /\ pending_games' = after.pending_games
    /\ next_game_number' = after.next_game_number
    /\ pgn_out' = after.pgn_out
    /\ pc' = [pc EXCEPT ![w] = "print"]
    /\ scheduled_game' = [scheduled_game EXCEPT ![w] = None]
    /\ game' = [game EXCEPT ![w] = None]
    /\ UNCHANGED <<processVars, moveVars, cliVars, lockVars, handshakeVars,
                   configVars, gameVars, sharedVars, moves, io_error, engines>>

\* sprt_penta_stats: finished_games.chunks(2), those with every game present
Chunks == {{i \in DOMAIN finished_games : i \div 2 = k} : k \in 0..((num_games - 1) \div 2)}
FinishedChunks == {c \in Chunks : \A i \in c : finished_games[i] # None}
\* game_pair[1] of a chunk that holds one game only is out of bounds
sprt_penta_stats_panics == \E c \in FinishedChunks : Cardinality(c) < 2

\* Game::game_result of a record: the result its result string stands for,
\* None for a record without result ("*": placeholder, game ended for length)
game_result(g) ==
    CASE g.game_result_str = "1-0" -> Some("WhiteWin")
      [] g.game_result_str = "0-1" -> Some("BlackWin")
      [] g.game_result_str = "1/2-1/2" -> Some("Draw")
      [] OTHER -> None

\* vec![vec![0; num_engines]; num_engines]
zeroes ==
    [id \in (0..(num_engines(tournament_type) - 1)) \X (0..(num_engines(tournament_type) - 1))
        |-> 0]

\* `m[i][j] += 1`
incremented(m, i, j) == [m EXCEPT ![<<i, j>>] = @ + 1]

\* a tally that enters a draw for the white engine only
add_draw_once(engine_draws, white, black) == incremented(engine_draws, white, black)
\* `engine_draws[white][black] += 1; engine_draws[black][white] += 1`
add_draw(engine_draws, white, black) ==
    incremented(incremented(engine_draws, white, black), black, white)

\* print_score: the counters before the loop over the games
no_games ==
    [engine_wins |-> zeroes, engine_draws |-> zeroes, engine_losses |-> zeroes,
     white_wins |-> 0, black_wins |-> 0, draws |-> 0]

\* print_score: one iteration of the loop over scheduled_games zipped with
\* the finished games that are Some
counted(t, scheduled, g) ==
    LET white == scheduled.white_engine_id
        black == scheduled.black_engine_id
    IN CASE game_result(g) = Some("WhiteWin") ->
                [t EXCEPT !.engine_wins = incremented(@, white, black),
                          !.engine_losses = incremented(@, black, white),
                          !.white_wins = @ + 1]
         [] game_result(g) = Some("BlackWin") ->
                [t EXCEPT !.engine_wins = incremented(@, black, white),
                          !.engine_losses = incremented(@, white, black),
                          !.black_wins = @ + 1]
         [] OTHER ->
                [t EXCEPT !.engine_draws = add_draw(@, white, black),
                          !.draws = @ + 1]

\* print_score: the counters after the first n rounds of the schedule
RECURSIVE tally(_)
tally(n) ==
    IF n = 0 THEN no_games
    ELSE IF finished_games[n - 1] = None THEN tally(n - 1)
    ELSE counted(tally(n - 1), scheduled_games[n], unwrap(finished_games[n - 1]))

\* print_score: the counters after the loop
score == tally(num_games)

\* `m.iter().flatten().sum::<u64>()`
RECURSIVE sum(_, _)
sum(m, ids) ==
    IF ids = {} THEN 0
    ELSE LET id == CHOOSE id \in ids : TRUE IN m[id] + sum(m, ids \ {id})

\* `finished_games.iter().flatten().count()`
count == Cardinality({r \in DOMAIN finished_games : finished_games[r] # None})

\* print_score: the four assert_eq!
asserts_hold ==
    /\ sum(score.engine_wins, DOMAIN score.engine_wins) + score.draws = count
    /\ sum(score.engine_losses, DOMAIN score.engine_losses) + score.draws = count
    /\ score.white_wins + score.black_wins + score.draws = count
    /\ score.draws = sum(score.engine_draws, DOMAIN score.engine_draws) \div 2

\* print_score panics on a failed assert_eq! or, in the Sprt arm, inside
\* sprt_penta_stats
print_score_panics ==
    \/ ~asserts_hold
    \/ tournament_type.kind = "Sprt" /\ sprt_penta_stats_panics

\* a decision that stops on acceptance only
sprt_accepts == tournament_type.kind = "Sprt" /\ sprt /\ llr >= upper_bound

\* print_score, Sprt arm with parameters:
\* `if llr <= lower_bound || llr >= upper_bound { is_shutting_down.store(true) }`
sprt_stops == tournament_type.kind = "Sprt" /\ sprt
              /\ (llr <= lower_bound \/ llr >= upper_bound)

\* a print_score that stores the outcome of the comparison in the flag
flag_follows_sprt(flag) == sprt_stops
\* print_score: `is_shutting_down.store(true, SeqCst)` inside the `if`, the
\* flag after it
flag_after_print_score(flag) == flag \/ sprt_stops

\* thread_tournament.print_score(..) at the end of the loop body; the locks
\* are taken by try_lock in a loop, which never succeeds on a poisoned mutex
PrintScore(w) ==
    /\ pc[w] = "print"
    /\ ~poisoned
    /\ IF print_score_panics
       THEN /\ pc' = [pc EXCEPT ![w] = "panicked"]
            /\ poisoned' = TRUE
            /\ UNCHANGED is_shutting_down
       ELSE /\ is_shutting_down' = flag_after_print_score(is_shutting_down)
            /\ pc' = [pc EXCEPT ![w] = "loop"]
            /\ UNCHANGED poisoned
    /\ UNCHANGED <<processVars, moveVars, cliVars, lockVars, handshakeVars,
                   configVars, gameVars, writerVars, next_game_id, finished_games, llr, main_pc,
                   dispatched, scheduled_game, moves, game, io_error, engines>>

\* the coordinator: thread_handle.join().unwrap() for every worker, then
\* the final print_score
JoinAndPrintScore ==
    /\ main_pc = "join"
    /\ \A w \in Workers : pc[w] \in {"done", "panicked"}
    /\ IF \E w \in Workers : pc[w] = "panicked"
       THEN /\ main_pc' = "panicked"
            /\ UNCHANGED is_shutting_down
       ELSE /\ main_pc' = "done"
            /\ is_shutting_down' = flag_after_print_score(is_shutting_down)
    /\ UNCHANGED <<processVars, moveVars, cliVars, lockVars, handshakeVars,
                   configVars, gameVars, writerVars, next_game_id, finished_games, poisoned,
                   llr, dispatched, pc, scheduled_game, moves, game, io_error, engines>>

\* the user interrupt (signal handler) sets the flag while the pool runs
Interrupt ==
    /\ main_pc = "join"
    /\ ~is_shutting_down
    /\ is_shutting_down' = TRUE
    /\ UNCHANGED <<processVars, moveVars, cliVars, lockVars, handshakeVars,
                   configVars, gameVars, writerVars, next_game_id, finished_games, poisoned,
                   llr, main_pc, dispatched, pc, scheduled_game, moves, game,
                   io_error, engines>>

Replies == {"legal", "illegal"}

Next ==
    \/ \E w \in Workers : NextUnplayedGame(w)
    \/ \E w \in Workers : CheckShuttingDown(w)
    \/ \E w \in Workers, io \in IoResults : NewGame(w, io)
    \/ \E w \in Workers, result \in GameResults : GameResult(w, result)
    \/ \E w \in Workers, reply \in Replies, in_time \in BOOLEAN : BestMove(w, reply, in_time)
    \/ \E w \in Workers, kind \in IoResults, restart_ok \in BOOLEAN :
           EngineCrash(w, kind, restart_ok)
    \/ \E w \in Workers : EngineIoError(w)
    \/ \E w \in Workers : StoreGame(w)
    \/ \E w \in Workers : SubmitGame(w)
    \/ \E w \in Workers : PrintScore(w)
    \/ JoinAndPrintScore
    \/ Interrupt

Spec == Init /\ [][Next]_vars

(* ------------------- the PTN writer on its own ------------------------- *)
\* the games a caller may submit for a round
PgnGames(round_number) ==
    {Game(MaxPlies, result, "", round_number) : result \in GameResults} \cup {Placeholder}

Submitted == {r \in DOMAIN dispatched : dispatched[r] > 0}

\* one call of PgnWriter::submit_game, for a round not submitted before
PgnSubmit(game_number, g) ==
    LET after == submit_game(PgnWriter, game_number, g) IN
    /\ dispatched[game_number] = 0
    /\ dispatched' = [dispatched EXCEPT ![game_number] = Cardinality(Submitted) + 1]
    /\ pending_games' = after.pending_games
    /\ next_game_number' = after.next_game_number
    /\ pgn_out' = after.pgn_out
    /\ UNCHANGED <<processVars, moveVars, cliVars, lockVars, handshakeVars,
                   configVars, gameVars, next_game_id, finished_games, poisoned, is_shutting_down,
                   llr, pc, scheduled_game, moves, game, io_error, engines, main_pc>>

PgnNext == \E game_number \in DOMAIN dispatched :
               \E g \in PgnGames(game_number) : PgnSubmit(game_number, g)

PgnSpec == Init /\ [][PgnNext]_vars

(* ------------------------------ claims --------------------------------- *)
Rounds == DOMAIN finished_games
Written == {pgn_out[i][1] : i \in 1..Len(pgn_out)}
Pending == {pending_games[i][1] : i \in 1..Len(pending_games)}

\* a step in which worker w comes back from next_unplayed_game
Returns(w) == pc[w] = "loop" /\ pc'[w] \in {"check", "done"}

C1_Step ==
    /\ next_game_id' \in {next_game_id, next_game_id + 1}
    /\ \A w \in Workers :
           Returns(w) =>
               IF next_game_id < num_games
               THEN /\ next_game_id' = next_game_id + 1
                    /\ scheduled_game'[w] = Some(schedule[next_game_id])
                    /\ \A v \in Workers \ {w} : scheduled_game'[v] = scheduled_game[v]
               ELSE /\ next_game_id' = next_game_id
                    /\ scheduled_game'[w] = None
                    /\ pc'[w] = "done"
    /\ next_game_id' # next_game_id => \E w \in Workers : Returns(w)

\* C1: the cursor next_game_id never decreases and grows by exactly one with
\* each successful claim and only then; the claim hands out the round under
\* the cursor, to one worker; no round is handed out twice; and with the
\* cursor at num_games a call returns None and leaves the cursor alone.
C1_CursorClaims ==
    /\ [](\A r \in Rounds : dispatched[r] <= 1)
    /\ [](next_game_id \in 0..num_games)
    /\ [][C1_Step]_vars

\* every round of a full schedule handed out once, and a worker sent home by
\* a None from the scheduler
C1_Witness ==
    /\ num_games = MaxGames
    /\ next_game_id = num_games
    /\ \A r \in Rounds : dispatched[r] = 1
    /\ ~is_shutting_down /\ ~poisoned
    /\ \E w \in Workers : pc[w] = "done"

C2_Step ==
    \A r \in Rounds :
        finished_games'[r] # finished_games[r] =>
            /\ finished_games[r] = None
            /\ finished_games'[r] # None
            /\ dispatched[r] = 1
            /\ \E w \in Workers :
                   /\ pc[w] = "store" /\ pc'[w] = "submit"
                   /\ scheduled_game[w] = Some(schedule[r])
                   /\ finished_games'[r] = game[w]

\* C2: a slot of finished_games changes only from empty to filled, so at most
\* once; the step that fills slot r is the store of the worker that holds the
\* claim on round r and the game it got from play_game; a filled slot is
\* never overwritten or cleared.
C2_SlotWrittenOnce == [][C2_Step]_vars

\* a full schedule with every slot filled, the workers having shared the rounds
C2_Witness ==
    /\ num_games = MaxGames
    /\ \A r \in Rounds : finished_games[r] # None
    /\ \A w \in Workers : pc[w] = "done"

\* C3: the games written are the rounds 0, 1, 2, .. in this order without a
\* gap and each once; a round is written only when it and every lower round
\* have been submitted; a round submitted ahead of a missing lower round is
\* in pending_games and not in the output.
C3_WrittenInRoundOrder ==
    /\ \A i \in 1..Len(pgn_out) : pgn_out[i][1] = i - 1
    /\ \A r \in Written : \A q \in 0..r : q \in Submitted
    /\ \A r \in Submitted :
           (\E q \in 0..(r - 1) : q \notin Submitted) => r \in Pending /\ r \notin Written
    /\ Written \cup Pending = Submitted
    /\ Written \cap Pending = {}

\* the last round of a full schedule was submitted first and all are written
C3_Witness ==
    /\ num_games = MaxGames
    /\ dispatched[MaxGames - 1] = 1
    /\ Len(pgn_out) = MaxGames

\* C4: after every submit_game call each submitted round that has no missing
\* lower round is in the output, so a held game is written in the very call
\* that supplies the last missing lower round; and once all n rounds are
\* submitted all n games are written, pending_games is empty and
\* next_game_number = n.
C4_HeldGamesFlushed ==
    /\ \A r \in Submitted : (\A q \in 0..(r - 1) : q \in Submitted) => r \in Written
    /\ Submitted = Rounds =>
           /\ Len(pgn_out) = num_games
           /\ pending_games = <<>>
           /\ next_game_number = num_games

\* round 0 of a full schedule was submitted last: its call wrote every game
C4_Witness ==
    /\ num_games = MaxGames
    /\ dispatched[0] = MaxGames
    /\ pending_games = <<>>
    /\ next_game_number = MaxGames

InHand(r) == \E w \in Workers :
                 /\ scheduled_game[w] = Some(schedule[r])
                 /\ pc[w] \in {"check", "newgame", "play", "store", "submit"}

\* C5: every round claimed from the cursor is consumed: while it is not yet
\* stored in finished_games and submitted to the PTN writer, the worker that
\* claimed it is on its way through the game; no claimed round is dropped.
C5_ClaimedRoundConsumed ==
    \A r \in Rounds :
        dispatched[r] > 0 =>
            \/ InHand(r)
            \/ finished_games[r] # None /\ r \in Written \cup Pending

\* once a game is begun the worker goes on to its end, stores what play_game
\* gave it in the slot of its round and submits it under that round
GameCarriedThrough(w) ==
    /\ pc[w] \in {"newgame", "play"} /\ pc'[w] # pc[w] => pc'[w] \in {"play", "store"}
    /\ pc[w] = "store" /\ pc'[w] # pc[w] =>
           pc'[w] = "submit" /\ finished_games'[Round(w)] = game[w]
    /\ pc[w] = "submit" /\ pc'[w] # pc[w] =>
           /\ pc'[w] = "print"
           /\ \E i \in 1..Len(pgn_out' \o pending_games') :
                  (pgn_out' \o pending_games')[i] = <<Round(w), unwrap(game[w])>>

\* the between-games check of a worker that finds the flag set ends its loop,
\* and no worker passes the check into a game while the flag is set
StopsBetweenGames(w) ==
    /\ pc[w] = "check" /\ is_shutting_down /\ pc'[w] # pc[w] => pc'[w] = "done"
    /\ pc[w] # "newgame" /\ pc'[w] = "newgame" => ~is_shutting_down

\* C6: with the flag set a worker at its between-games check starts no game
\* and leaves its loop; a game in progress is never cut short: it is played
\* to its end, stored in finished_games and submitted to the PTN writer.
C6_GamesInProgressFinish ==
    [][\A w \in Workers : StopsBetweenGames(w) /\ GameCarriedThrough(w)]_vars

\* the LLR of the pairs completed so far is at or beyond a bound
LlrCrossed == tournament_type.kind = "Sprt" /\ sprt
              /\ (llr <= lower_bound \/ llr >= upper_bound)

\* C7: once a completed pair has taken the LLR across a bound, no further
\* round is dispatched from the scheduler cursor.
C7_NoDispatchAfterCrossing == [][LlrCrossed => next_game_id' = next_game_id]_vars

IsCrashForfeit(g) ==
    /\ g.game_result_str \in {"1-0", "0-1"}
    /\ \E color \in {White, Black} :
           /\ g.game_result_str = forfeit_win_str(Not(color))
           /\ g.tags[Len(g.tags)] = <<"Termination", color \o " disconnected or crashed">>

\* C8: a game in which engine I/O fails with EOF or broken pipe, in the
\* newgame handshake or while waiting for bestmove, ends as a forfeit with
\* termination "<color> disconnected or crashed", the engine restarted and the
\* shutdown flag left as it was.  (A failure of the restart itself is set
\* aside.)
C8_CrashIsForfeit ==
    [][\A w \in Workers :
          (/\ pc[w] \in {"newgame", "play"} /\ pc'[w] = "store"
           /\ io_error'[w].crash
           /\ (io_error'[w].phase = "newgame" \/ io_error'[w].restarted))
          => /\ io_error'[w].restarted
             /\ IsCrashForfeit(unwrap(game'[w]))
             /\ is_shutting_down' = is_shutting_down]_vars

\* C9: at the start of every game, and all through it, both engines of the
\* game have the configured HalfKomi in force.
C9_OptionsInForce ==
    \A w \in Workers :
        pc[w] \in {"newgame", "play"} =>
            /\ engines[w][unwrap(scheduled_game[w]).white_engine_id] = desired_uci_options
            /\ engines[w][unwrap(scheduled_game[w]).black_engine_id] = desired_uci_options

\* the worker whose play_game failed sets the flag, stores the placeholder
\* in the slot of its round and submits it under that round
PlaceholderStored(w) ==
    /\ pc[w] \in {"newgame", "play"} /\ game'[w] = Some(Placeholder) =>
           is_shutting_down' /\ pc'[w] = "store"
    /\ pc[w] = "store" /\ game[w] = Some(Placeholder) /\ pc'[w] # pc[w] =>
           pc'[w] = "submit" /\ finished_games'[Round(w)] = Some(Placeholder)
    /\ pc[w] = "submit" /\ game[w] = Some(Placeholder) /\ pc'[w] # pc[w] =>
           \E i \in 1..Len(pgn_out' \o pending_games') :
               (pgn_out' \o pending_games')[i] = <<Round(w), Placeholder>>

\* C10: a worker whose play_game returned an error sets the shutdown flag,
\* stores the empty placeholder in finished_games at its round and submits it
\* under the same round; every worker with a game in progress finishes,
\* stores and submits it, and none passes the between-games check afterwards.
C10_FatalErrorPlaceholder ==
    [][\A w \in Workers :
          /\ PlaceholderStored(w)
          /\ \A v \in Workers \ {w} :
                 (\E r \in Rounds : finished_games[r] = Some(Placeholder)) =>
                     GameCarriedThrough(v) /\ StopsBetweenGames(v)]_vars

(* ------------------- the game driver, move by move --------------------- *)
\* game.rs:77, `if moves.len() > 1000`
max_game_length == 1000

\* what a bestmove line may carry
BestMoves == {"legal", "illegal", "malformed"}
\* time_taken of a move, in clock ticks
Elapsed == 0..(MaxClock + 1)
\* pgn_game_result of the position a move leads to
ResultsAfterMove == {None} \cup {Some(result) : result \in GameResults}
\* the forced moves of the opening of the game: short book lines, and lines
\* about as long as the longest game the driver plays
OpeningMoves == {0, 1, 999, 1000, 1002}

\* one worker holds round 0 of a one-game head-to-head tournament and has
\* passed its flag check
GameInit ==
    /\ tournament_type = [kind |-> "RoundRobin", n |-> 2]
    /\ sprt = FALSE
    /\ num_games = 1
    /\ desired_uci_options \in HalfKomiValues
    /\ openings \in {<<Opening(0, n)>> : n \in OpeningMoves}
    /\ openings_start_index = 0
    /\ game_time \in [0..1 -> 1..MaxClock]
    /\ increment \in [0..1 -> 0..1]
    /\ scheduled_games = collect
    /\ next_game_id = 1
    /\ finished_games = [r \in 0..(num_games - 1) |-> None]
    /\ poisoned = FALSE
    /\ pending_games = <<>>
    /\ next_game_number = 0
    /\ pgn_out = <<>>
    /\ is_shutting_down = FALSE
    /\ llr = 0
    /\ pc = [w \in Workers |-> IF w = 1 THEN "newgame" ELSE "done"]
    /\ scheduled_game = [w \in Workers |-> IF w = 1 THEN Some(schedule[0]) ELSE None]
    /\ moves = [w \in Workers |-> 0]
    /\ game = [w \in Workers |-> None]
    /\ io_error = [w \in Workers |-> NoError]
    /\ engines = [w \in Workers |-> [id \in 0..1 |-> desired_uci_options]]
    /\ main_pc = "join"
    /\ dispatched = [r \in 0..(num_games - 1) |-> 1]
    /\ white_time = [w \in Workers |-> 0]
    /\ black_time = [w \in Workers |-> 0]
    /\ position = [w \in Workers |-> StartPosition]
    /\ HandshakeDone

\* what a step of the game of worker w leaves alone
outsideGame == <<processVars, moveVars, cliVars, lockVars, handshakeVars,
                 configVars, writerVars, scheduled_games, scheduled_game, next_game_id,
                 finished_games, poisoned, llr, main_pc, dispatched>>

\* play_game up to the game loop: the live position after the opening moves,
\* the move list holding them, the handshake, and the clocks at game_time
PlayGame(w, io) ==
    LET opening == scheduled_games[Round(w) + 1].opening IN
    /\ pc[w] = "newgame"
    /\ IF io = "Ok"
       THEN /\ pc' = [pc EXCEPT ![w] = "play"]
            /\ position' = [position EXCEPT ![w] = [plies |-> opening.moves, result |-> None]]
            /\ moves' = [moves EXCEPT ![w] = opening.moves]
            /\ white_time' = [white_time EXCEPT
                                 ![w] = game_time[unwrap(scheduled_game[w]).white_engine_id]]
            /\ black_time' = [black_time EXCEPT
                                 ![w] = game_time[unwrap(scheduled_game[w]).black_engine_id]]
            /\ UNCHANGED <<is_shutting_down, game, io_error>>
       ELSE /\ FatalError(w, "newgame", io)
            /\ UNCHANGED <<position, white_time, black_time>>
    /\ UNCHANGED <<outsideGame, engines>>

\* a length check that lets one more move through
exceeds_max_length_late(n) == n > max_game_length + 1

\* `moves.len() > 1000`
exceeds_max_length(n) == n > max_game_length

\* the side to move in the live position, and its engine
Mover(w) == side_to_move(position[w].plies)
\* a driver that asks the engine of the side that is not to move
WaitingEngine(w) ==
    IF Mover(w) = White
    THEN unwrap(scheduled_game[w]).black_engine_id
    ELSE unwrap(scheduled_game[w]).white_engine_id
MoverEngine(w) ==
    IF Mover(w) = White
    THEN unwrap(scheduled_game[w]).white_engine_id
    ELSE unwrap(scheduled_game[w]).black_engine_id

\* loop head: the move list is too long
LoopMaxLength(w) ==
    /\ pc[w] = "play"
    /\ exceeds_max_length(moves[w])
    /\ EndGame(w, moves[w], "*",
               "Game terminated after reaching " \o ToString(moves[w] \div 2) \o " moves.")
    /\ UNCHANGED <<outsideGame, is_shutting_down, io_error, engines, position,
                   white_time, black_time>>

\* loop head: the live position has a result
LoopGameResult(w) ==
    /\ pc[w] = "play"
    /\ ~exceeds_max_length(moves[w])
    /\ position[w].result # None
    /\ EndGame(w, moves[w], unwrap(position[w].result), "")
    /\ UNCHANGED <<outsideGame, is_shutting_down, io_error, engines, position,
                   white_time, black_time>>

\* the loop goes on to ask the engine to move
AsksForMove(w) ==
    /\ pc[w] = "play"
    /\ ~exceeds_max_length(moves[w])
    /\ position[w].result = None

\* position.move_from_lan(&move_string) is Ok
move_from_lan(move) == move # "malformed"

\* a driver that takes every move for a legal one
contains_anything(move) == TRUE
\* legal_moves.contains(&mv)
legal_moves_contains(move) == move = "legal"

\* a clock that is allowed to run out exactly
in_time_strict(time_taken, remaining) == time_taken < remaining
\* `time_taken <= white_time`
in_time(time_taken, remaining) == time_taken <= remaining

\* a clock that takes the time off and adds nothing
clock_without_increment(remaining, time_taken, inc) == remaining - time_taken
\* `white_time -= time_taken; white_time += white_inc`
clock_after(remaining, time_taken, inc) == remaining - time_taken + inc

\* loop body: play_move returned Ok with a bestmove after time_taken; the
\* move leads to a position with pgn_game_result `result`
LoopBestMove(w, move, time_taken, result) ==
    LET remaining == IF Mover(w) = White THEN white_time[w] ELSE black_time[w]
        after == clock_after(remaining, time_taken, increment[MoverEngine(w)])
    IN
    /\ AsksForMove(w)
    /\ IF ~move_from_lan(move)
       THEN /\ EndGame(w, moves[w], forfeit_win_str(Not(Mover(w))),
                       Mover(w) \o " sent a malformed move")
            /\ UNCHANGED <<position, white_time, black_time>>
       ELSE IF ~legal_moves_contains(move)
       THEN /\ EndGame(w, moves[w], forfeit_win_str(Not(Mover(w))),
                       Mover(w) \o " made an illegal move")
            /\ UNCHANGED <<position, white_time, black_time>>
       ELSE /\ position' = [position EXCEPT
                               ![w] = [plies |-> @.plies + 1, result |-> result]]
            /\ IF in_time(time_taken, remaining)
               THEN /\ after <= MaxClock
                    /\ moves' = [moves EXCEPT ![w] = @ + 1]
                    /\ IF Mover(w) = White
                       THEN /\ white_time' = [white_time EXCEPT ![w] = after]
                            /\ UNCHANGED black_time
                       ELSE /\ black_time' = [black_time EXCEPT ![w] = after]
                            /\ UNCHANGED white_time
                    /\ UNCHANGED <<game, pc>>
               ELSE /\ EndGame(w, moves[w] + 1, forfeit_win_str(Not(Mover(w))),
                               Not(Mover(w)) \o " wins on time")
                    /\ UNCHANGED <<white_time, black_time>>
    /\ UNCHANGED <<outsideGame, is_shutting_down, io_error, engines>>

\* loop body: play_move returned Err of kind UnexpectedEof or BrokenPipe
LoopEngineCrash(w, kind, restart_ok) ==
    /\ AsksForMove(w)
    /\ IsCrash(kind)
    /\ IF restart_ok
       THEN /\ engines' = [engines EXCEPT ![w][MoverEngine(w)] = restart(@)]
            /\ EndGame(w, moves[w], forfeit_win_str(Not(Mover(w))),
                       Mover(w) \o " disconnected or crashed")
            /\ io_error' = [io_error EXCEPT
                   ![w] = [phase |-> "bestmove", crash |-> TRUE, restarted |-> TRUE]]
            /\ UNCHANGED is_shutting_down
       ELSE /\ FatalError(w, "bestmove", kind)
            /\ UNCHANGED engines
    /\ UNCHANGED <<outsideGame, position, white_time, black_time>>

\* loop body: play_move returned any other Err
LoopEngineIoError(w) ==
    /\ AsksForMove(w)
    /\ FatalError(w, "bestmove", "Other")
    /\ UNCHANGED <<outsideGame, engines, position, white_time, black_time>>

\* the results a move of worker w may lead to: the last of MaxMoves moves
\* ends the game
ResultsAfter(w) ==
    IF scheduled_game[w] = None THEN {}
    ELSE IF position[w].plies + 1 - scheduled_games[Round(w) + 1].opening.moves >= MaxMoves
    THEN ResultsAfterMove \ {None}
    ELSE ResultsAfterMove

GameNext ==
    \/ \E w \in Workers, io \in IoResults : PlayGame(w, io)
    \/ \E w \in Workers : LoopMaxLength(w)
    \/ \E w \in Workers : LoopGameResult(w)
    \/ \E w \in Workers, move \in BestMoves, time_taken \in Elapsed :
           \E result \in ResultsAfter(w) : LoopBestMove(w, move, time_taken, result)
    \/ \E w \in Workers, kind \in IoResults, restart_ok \in BOOLEAN :
           LoopEngineCrash(w, kind, restart_ok)
    \/ \E w \in Workers : LoopEngineIoError(w)

GameSpec == GameInit /\ [][GameNext]_vars

(* ----------------------- claims on the game driver --------------------- *)
\* the step ends the game of worker w with this result and termination
Ended(w, result, termination) ==
    /\ pc'[w] = "store"
    /\ game'[w] # None
    /\ unwrap(game'[w]).game_result_str = result
    /\ LET tags == unwrap(game'[w]).tags IN
           tags # <<>> /\ tags[Len(tags)] = <<"Termination", termination>>

\* the step neither applies a move to the live position nor appends one to
\* the move list, and restarts no engine
NothingPlayed(w) ==
    /\ position' = position
    /\ unwrap(game'[w]).moves = moves[w]
    /\ engines' = engines

\* C11: a bestmove that does not decode ends the game as a win of the side
\* not to move with "<color> sent a malformed move"; one that decodes and is
\* not a legal move ends it likewise with "<color> made an illegal move"; in
\* both cases no move is applied or appended and no engine is restarted.
C11_BadMoveForfeits ==
    [][\A w \in Workers, time_taken \in Elapsed, result \in ResultsAfterMove :
          /\ LoopBestMove(w, "malformed", time_taken, result) =>
                 /\ Ended(w, forfeit_win_str(Not(Mover(w))),
                          Mover(w) \o " sent a malformed move")
                 /\ NothingPlayed(w)
          /\ LoopBestMove(w, "illegal", time_taken, result) =>
                 /\ Ended(w, forfeit_win_str(Not(Mover(w))),
                          Mover(w) \o " made an illegal move")
                 /\ NothingPlayed(w)]_vars

\* Black, to move after White's first move, has lost on an illegal move
C11_Witness ==
    \E w \in Workers :
        /\ pc[w] = "store"
        /\ openings[1].moves = 0
        /\ position[w].plies = 1
        /\ game[w] = Some(Game(1, "1-0", "Black made an illegal move", 0))

\* the clock of the side to move, before and after the step
MoverClock(w) == IF Mover(w) = White THEN white_time[w] ELSE black_time[w]
MoverClockAfter(w) == IF Mover(w) = White THEN white_time'[w] ELSE black_time'[w]

\* the step ends the game of worker w as a time forfeit of the side to move
ForfeitedOnTime(w) ==
    Ended(w, forfeit_win_str(Not(Mover(w))), Not(Mover(w)) \o " wins on time")

\* a bestmove of worker w's game that arrives after time_taken: beyond the
\* mover's remaining clock the game ends as "<opponent> wins on time", within
\* it the game is not forfeited on time and, where it goes on, the mover's
\* clock is remaining - elapsed + increment
ClockRule(w, move, time_taken, result) ==
    LoopBestMove(w, move, time_taken, result) =>
        IF time_taken > MoverClock(w)
        THEN ForfeitedOnTime(w)
        ELSE /\ ~ForfeitedOnTime(w)
             /\ game'[w] = None =>
                    MoverClockAfter(w) =
                        MoverClock(w) - time_taken + increment[MoverEngine(w)]

OverLength(w) == pc[w] = "play" /\ moves[w] > max_game_length

\* the step ends the game of worker w with no result and a termination that
\* is not empty, and no position/go is sent: nothing is played
EndedForLength(w) ==
    /\ pc'[w] = "store"
    /\ game'[w] # None
    /\ unwrap(game'[w]).game_result_str = "*"
    /\ LET tags == unwrap(game'[w]).tags IN
           /\ tags # <<>>
           /\ tags[Len(tags)][1] = "Termination"
           /\ tags[Len(tags)][2] # ""
    /\ NothingPlayed(w)

\* the next loop iteration of an over-long game ends it, whether or not the
\* live position is terminal
OverLengthEnds ==
    \A w \in Workers :
        OverLength(w) =>
            \/ UNCHANGED <<pc[w], game[w], moves[w], position[w]>>
            \/ EndedForLength(w)

\* the half-moves held by the game record of worker w do not exceed n
RecordHoldsAtMost(w, n) == game[w] # None => unwrap(game[w]).moves <= n

\* the larger of two numbers
Max(a, b) == IF a >= b THEN a ELSE b

\* C13 (as stated): an over-long game ends at the next loop iteration with
\* result None and a non-empty Termination, before the terminal-position
\* check and without a further position/go, and no game record ever holds
\* more than 1001 half-moves, opening moves counted.
C13_AtMost1001HalfMoves ==
    /\ [][OverLengthEnds]_vars
    /\ [](\A w \in Workers : RecordHoldsAtMost(w, max_game_length + 1))

\* C13: an over-long game ends at the next loop iteration with result None
\* and a non-empty Termination, before the terminal-position check and
\* without a further position/go, and no game record ever holds more
\* half-moves than the larger of 1001 and the length of its opening.
C13_MaxLengthEndsGame ==
    /\ [][OverLengthEnds]_vars
    /\ [](\A w \in Workers :
             RecordHoldsAtMost(w, Max(max_game_length + 1, openings[1].moves)))

\* a game ended for its length after 1001 half-moves although the position
\* after the last of them is terminal
C13_Witness ==
    \E w \in Workers :
        /\ pc[w] = "store"
        /\ position[w].result # None
        /\ game[w] = Some(Game(max_game_length + 1, "*",
                               "Game terminated after reaching 500 moves.", 0))

(* ----------------------------- the schedule ---------------------------- *)
\* bounds of the schedules built
MaxChallengers == 3
MaxEngines == 4
MaxBookEngines == 3
MaxRounds == 24
MaxOpenings == 6
MaxStartIndex == 2

\* TournamentType: Gauntlet(NonZeroUsize), RoundRobin(usize), BookTest(usize),
\* Sprt; RoundRobin divides by num_engines - 1 and takes at least two engines
ScheduleTypes ==
    {[kind |-> "Gauntlet", n |-> n] : n \in 1..MaxChallengers}
        \cup {[kind |-> "RoundRobin", n |-> n] : n \in 2..MaxEngines}
        \cup {[kind |-> "BookTest", n |-> n] : n \in 1..MaxBookEngines}
        \cup {[kind |-> "Sprt", n |-> 2]}

\* an opening book of n openings that differ
Book(n) == [i \in 1..n |-> Opening(i - 1, 0)]

\* TournamentSettings before schedule() is called
ScheduleInit ==
    /\ tournament_type \in ScheduleTypes
    /\ sprt = (tournament_type.kind = "Sprt")
    /\ num_games \in 1..MaxRounds
    /\ desired_uci_options = DefaultHalfKomi
    /\ openings \in {Book(n) : n \in 1..MaxOpenings}
    /\ openings_start_index \in 0..MaxStartIndex
    /\ game_time = [id \in 0..(num_engines(tournament_type) - 1) |-> 1]
    /\ increment = [id \in 0..(num_engines(tournament_type) - 1) |-> 0]
    /\ scheduled_games = <<>>
    /\ PoolInit

\* one iteration of (0..num_games).map(|round_number| ScheduledGame {..}): the
\* game of the next round number is appended to the collected vector
ScheduleRound ==
    /\ Len(scheduled_games) < num_games
    /\ scheduled_games' = Append(scheduled_games, ScheduledGame(Len(scheduled_games)))
    /\ UNCHANGED <<processVars, moveVars, cliVars, lockVars, handshakeVars,
                   configVars, white_time, black_time, position, poolVars, writerVars>>

ScheduleNext == ScheduleRound

ScheduleSpec == ScheduleInit /\ [][ScheduleNext]_vars

(* ------------------------- claims on the schedule ---------------------- *)
\* the schedule is complete: every round of num_games has been collected
Collected == Len(scheduled_games) = num_games

\* the rounds collected so far, as indices of the vector
Scheduled == DOMAIN scheduled_games

\* the engine ids of the tournament
EngineIds == 0..(num_engines(tournament_type) - 1)

\* C14: in Gauntlet, RoundRobin and SPRT schedules every scheduled game has
\* white_engine_id # black_engine_id, and both are engine ids of the
\* tournament (below the number of engines).
C14_NoSelfPairing ==
    tournament_type.kind \in {"Gauntlet", "RoundRobin", "Sprt"} =>
        \A i \in Scheduled :
            /\ scheduled_games[i].round_number = i - 1
            /\ scheduled_games[i].white_engine_id # scheduled_games[i].black_engine_id
            /\ scheduled_games[i].white_engine_id \in EngineIds
            /\ scheduled_games[i].black_engine_id \in EngineIds

\* a round robin of three engines scheduled over more than two of its blocks
C14_Witness ==
    /\ tournament_type = [kind |-> "RoundRobin", n |-> 3]
    /\ Collected
    /\ num_games > 12

\* the rounds of the b-th block of `period` rounds, as indices of the vector
Block(b, period) == (b * period + 1)..((b + 1) * period)

\* the number of rounds among `rounds` in which white is i and black is j
Pairings(rounds, i, j) ==
    Cardinality({r \in rounds : /\ scheduled_games[r].white_engine_id = i
                                /\ scheduled_games[r].black_engine_id = j})

\* C15: in a RoundRobin(N) schedule every block of N*(N-1) consecutive rounds
\* that starts at a multiple of N*(N-1) contains each ordered pair (white i,
\* black j) of different engines exactly once.
C15_DoubleRoundRobinPerBlock ==
    tournament_type.kind = "RoundRobin" =>
        LET N == tournament_type.n
            period == N * (N - 1)
        IN \A b \in 0..(MaxRounds \div period) :
               Block(b, period) \subseteq Scheduled =>
                   \A i, j \in EngineIds :
                       i # j => Pairings(Block(b, period), i, j) = 1

\* a round robin of four engines scheduled over two whole blocks
C15_Witness ==
    /\ tournament_type = [kind |-> "RoundRobin", n |-> 4]
    /\ Collected
    /\ num_games = 24

\* the number of collected rounds in which engine id is white
WhiteRounds(id) ==
    Cardinality({r \in Scheduled : scheduled_games[r].white_engine_id = id})

\* the number of collected rounds in which engine id takes part
RoundsPlayed(id) ==
    Cardinality({r \in Scheduled : \/ scheduled_games[r].white_engine_id = id
                                   \/ scheduled_games[r].black_engine_id = id})

\* C16: in a complete RoundRobin(N) schedule whose num_games is a multiple of
\* N*(N-1), each engine is white in exactly num_games/N rounds and takes part
\* in exactly 2*num_games/N rounds.
C16_RoundRobinShares ==
    /\ tournament_type.kind = "RoundRobin"
    /\ Collected
    /\ num_games % (tournament_type.n * (tournament_type.n - 1)) = 0
    => \A id \in EngineIds :
           /\ WhiteRounds(id) * tournament_type.n = num_games
           /\ RoundsPlayed(id) * tournament_type.n = 2 * num_games

\* a complete round robin of three engines over three blocks: 18 games, each
\* engine white in 6 and playing in 12
C16_Witness ==
    /\ tournament_type = [kind |-> "RoundRobin", n |-> 3]
    /\ Collected
    /\ num_games = 18
    /\ \A id \in EngineIds : WhiteRounds(id) = 6 /\ RoundsPlayed(id) = 12

\* head-to-head: a round robin of two engines, or the SPRT shape
HeadToHead ==
    \/ tournament_type = [kind |-> "RoundRobin", n |-> 2]
    \/ tournament_type.kind = "Sprt"

\* C17: in head-to-head (RoundRobin(2)) and SPRT schedules round r has white
\* r mod 2 and black 1 - (r mod 2); rounds 2k and 2k+1 use the same opening
\* with the colours swapped, engine 0 white first; and in a complete schedule
\* of an even num_games each engine is white in exactly num_games/2 rounds.
C17_HeadToHeadColours ==
    HeadToHead =>
        /\ \A i \in Scheduled :
               /\ scheduled_games[i].white_engine_id = (i - 1) % 2
               /\ scheduled_games[i].black_engine_id = 1 - ((i - 1) % 2)
        /\ \A k \in 0..(MaxRounds \div 2) :
               {2 * k + 1, 2 * k + 2} \subseteq Scheduled =>
                   /\ scheduled_games[2 * k + 1].opening = scheduled_games[2 * k + 2].opening
                   /\ scheduled_games[2 * k + 1].white_engine_id = 0
                   /\ scheduled_games[2 * k + 1].black_engine_id = 1
                   /\ scheduled_games[2 * k + 2].white_engine_id = 1
                   /\ scheduled_games[2 * k + 2].black_engine_id = 0
        /\ Collected /\ num_games % 2 = 0 =>
               \A id \in EngineIds : WhiteRounds(id) * 2 = num_games

\* a complete SPRT schedule of 8 games over a book of more than one opening
C17_Witness ==
    /\ tournament_type.kind = "Sprt"
    /\ Collected
    /\ num_games = 8
    /\ Len(openings) > 1
    /\ scheduled_games[3].opening = scheduled_games[4].opening
    /\ scheduled_games[2].opening # scheduled_games[3].opening

C19_BookTestPairs ==
    tournament_type.kind = "BookTest" =>
        LET N == tournament_type.n IN
        /\ \A i \in Scheduled :
               /\ scheduled_games[i].white_engine_id = ((i - 1) \div N) % N
               /\ scheduled_games[i].black_engine_id = (i - 1) % N
        /\ \A b \in 0..(MaxRounds \div (N * N)) :
               Block(b, N * N) \subseteq Scheduled =>
                   \A i, j \in EngineIds : Pairings(Block(b, N * N), i, j) = 1
        /\ Collected /\ num_games % (N * N) = 0 =>
               \A id \in EngineIds :
                   /\ WhiteRounds(id) * N = num_games
                   /\ RoundsPlayed(id) * N * N = num_games * (2 * N - 1)

\* a complete book test of three engines over two blocks: 18 games, each
\* engine white in 6, playing in 10 and paired with itself twice
C19_Witness ==
    /\ tournament_type = [kind |-> "BookTest", n |-> 3]
    /\ Collected
    /\ num_games = 18
    /\ \A id \in EngineIds :
           /\ WhiteRounds(id) = 6
           /\ RoundsPlayed(id) = 10
           /\ Pairings(Scheduled, id, id) = 2

\* the openings of the rounds collected
OpeningsUsed == {scheduled_games[i].opening : i \in Scheduled}

MaxScoreGames == 4

\* the shapes whose standings are followed
ScoreTypes ==
    {[kind |-> "Gauntlet", n |-> 1], [kind |-> "Gauntlet", n |-> 2],
     [kind |-> "RoundRobin", n |-> 2], [kind |-> "RoundRobin", n |-> 3],
     [kind |-> "BookTest", n |-> 1], [kind |-> "BookTest", n |-> 2],
     [kind |-> "Sprt", n |-> 2]}

\* the records a worker may store for a round: a game won by White, won by
\* Black or drawn, and, for the two rounds of the first pair, the placeholder
\* of the fatal-error branch
ScoreGames(round_number) ==
    {Game(MaxPlies, result, "", round_number) : result \in {"1-0", "0-1", "1/2-1/2"}}
        \cup (IF round_number \in 0..1 THEN {Placeholder} ELSE {})

\* Tournament::new for any shape, before the workers start
ScoreInit ==
    /\ tournament_type \in ScoreTypes
    /\ sprt \in {b \in BOOLEAN : b => tournament_type.kind = "Sprt"}
    /\ num_games \in 1..MaxScoreGames
    /\ desired_uci_options = DefaultHalfKomi
    /\ openings = <<Opening(0, 0)>>
    /\ openings_start_index = 0
    /\ game_time = [id \in 0..(num_engines(tournament_type) - 1) |-> 1]
    /\ increment = [id \in 0..(num_engines(tournament_type) - 1) |-> 0]
    /\ scheduled_games = collect
    /\ PoolInit

\* a worker's turn of the loop up to print_score (the workers are alike: of
\* those at the head of the loop the one of lowest id takes it): it plays
\* some round that is not finished (with as many workers as games the rounds
\* finish in any order) and stores the record,
\* `finished_games[round_number] = Some(game.clone())`
StoreFinished(w, round_number, g) ==
    /\ pc[w] = "loop"
    /\ \A v \in Workers : v < w => pc[v] # "loop"
    /\ ~poisoned
    /\ finished_games[round_number] = None
    /\ finished_games' = [finished_games EXCEPT ![round_number] = Some(g)]
    /\ \E value \in (IF sprt /\ CompletesPair(round_number) THEN LLRValues ELSE {llr}) :
           llr' = value
    /\ pc' = [pc EXCEPT ![w] = "print"]
    /\ UNCHANGED <<processVars, moveVars, cliVars, lockVars, handshakeVars,
                   configVars, gameVars, writerVars, next_game_id, poisoned,
                   is_shutting_down, scheduled_game, moves, game, io_error,
                   engines, main_pc, dispatched>>

ScoreNext ==
    \/ \E w \in Workers, round_number \in 0..(MaxScoreGames - 1) :
           /\ round_number < num_games
           /\ \E g \in ScoreGames(round_number) : StoreFinished(w, round_number, g)
    \/ \E w \in Workers : PrintScore(w)

ScoreSpec == ScoreInit /\ [][ScoreNext]_vars

(* --------------------------- sprt_penta_stats -------------------------- *)
\* PentanomialResult { ww: 0, wd: 0, wl: 0, dd: 0, dl: 0, ll: 0 }
no_pairs == [ww |-> 0, wd |-> 0, wl |-> 0, dd |-> 0, dl |-> 0, ll |-> 0]

\* a tally that takes a game without result for a win of White
unwrap_or_white_win(g) == IF game_result(g) = None THEN "WhiteWin" ELSE unwrap(game_result(g))
\* `.game_result().unwrap_or(Draw)`
unwrap_or_draw(g) == IF game_result(g) = None THEN "Draw" ELSE unwrap(game_result(g))

\* a tally that puts two wins of the same colour with the two draws, as the
\* printed line does
category_as_printed(result1, result2) ==
    CASE result1 = "WhiteWin" /\ result2 = "BlackWin" -> "ll"
      [] result1 = "WhiteWin" /\ result2 = "Draw" -> "dl"
      [] result1 = "Draw" /\ result2 = "BlackWin" -> "dl"
      [] result1 = "WhiteWin" /\ result2 = "WhiteWin" -> "dd"
      [] result1 = "BlackWin" /\ result2 = "BlackWin" -> "dd"
      [] result1 = "Draw" /\ result2 = "Draw" -> "dd"
      [] result1 = "BlackWin" /\ result2 = "Draw" -> "wd"
      [] result1 = "Draw" /\ result2 = "WhiteWin" -> "wd"
      [] result1 = "BlackWin" /\ result2 = "WhiteWin" -> "ww"

\* `match (result1, result2)`: the field of the result that is incremented
category(result1, result2) ==
    CASE result1 = "WhiteWin" /\ result2 = "BlackWin" -> "ll"
      [] result1 = "WhiteWin" /\ result2 = "Draw" -> "dl"
      [] result1 = "Draw" /\ result2 = "BlackWin" -> "dl"
      [] result1 = "WhiteWin" /\ result2 = "WhiteWin" -> "wl"
      [] result1 = "BlackWin" /\ result2 = "BlackWin" -> "wl"
      [] result1 = "Draw" /\ result2 = "Draw" -> "dd"
      [] result1 = "BlackWin" /\ result2 = "Draw" -> "wd"
      [] result1 = "Draw" /\ result2 = "WhiteWin" -> "wd"
      [] result1 = "BlackWin" /\ result2 = "WhiteWin" -> "ww"

\* a tally that sets a category to one instead of adding one to it
category_set(result, field) == [result EXCEPT ![field] = 1]
\* `result.ll += 1` and the like
category_incremented(result, field) == [result EXCEPT ![field] = @ + 1]

\* the number of chunks of finished_games.chunks(2)
num_chunks == (num_games + 1) \div 2

\* the k-th chunk passes `.filter(|p| p.iter().all(|g| g.is_some()))`
all_some(k) ==
    \A r \in {2 * k, 2 * k + 1} : r < num_games => finished_games[r] # None

\* sprt_penta_stats: the result after the loop has passed the first k chunks;
\* a chunk of one game that passes the filter ends the loop in a panic, which
\* leaves the result as it is
RECURSIVE penta_after(_)
penta_after(k) ==
    IF k = 0 THEN no_pairs
    ELSE IF all_some(k - 1) /\ 2 * (k - 1) + 1 < num_games
    THEN category_incremented(
             penta_after(k - 1),
             category(unwrap_or_draw(unwrap(finished_games[2 * (k - 1)])),
                      unwrap_or_draw(unwrap(finished_games[2 * (k - 1) + 1]))))
    ELSE penta_after(k - 1)

\* sprt_penta_stats(&finished_games): the tally it returns, None when it
\* panics
sprt_penta_stats ==
    IF sprt_penta_stats_panics THEN None ELSE Some(penta_after(num_chunks))

(* ------------------------- claims on the standings --------------------- *)
\* the rounds that are finished
Finished == {r \in DOMAIN finished_games : finished_games[r] # None}

\* C21: whenever print_score runs, in every shape, self-pairings of a book
\* test and placeholder records included, its four assertions hold: engine
\* wins + draws, engine losses + draws and white wins + black wins + draws
\* all equal the number of finished games, and draws is half the sum of
\* engine_draws.
C21_ScoreAssertions ==
    /\ sum(score.engine_wins, DOMAIN zeroes) + score.draws = Cardinality(Finished)
    /\ sum(score.engine_losses, DOMAIN zeroes) + score.draws = Cardinality(Finished)
    /\ score.white_wins + score.black_wins + score.draws = Cardinality(Finished)
    /\ 2 * score.draws = sum(score.engine_draws, DOMAIN zeroes)

\* a book test of two engines with all four games finished: the self-paired
\* first game drawn, a placeholder for the second, a win for each colour
C21_Witness ==
    /\ tournament_type = [kind |-> "BookTest", n |-> 2]
    /\ num_games = 4
    /\ scheduled_games[1].white_engine_id = scheduled_games[1].black_engine_id
    /\ finished_games[0] = Some(Game(MaxPlies, "1/2-1/2", "", 0))
    /\ finished_games[1] = Some(Placeholder)
    /\ finished_games[2] = Some(Game(MaxPlies, "1-0", "", 2))
    /\ finished_games[3] = Some(Game(MaxPlies, "0-1", "", 3))
    /\ score.engine_draws[<<0, 0>>] = 2
    /\ \A w \in Workers : pc[w] = "loop"

\* the sum of the six categories of a tally
PairsCounted(t) == t.ww + t.wd + t.wl + t.dd + t.dl + t.ll

\* the pairs (2k, 2k+1) of which both games are finished
CompletePairs == {k \in 0..(MaxScoreGames \div 2) : {2 * k, 2 * k + 1} \subseteq Finished}

\* C22 (as stated): in every state of an SPRT tournament, rounds finished in
\* any order, the six categories of the pentanomial tally sum to the number
\* of finished games divided by two.
C22_TallyIsHalfOfFinished ==
    tournament_type.kind = "Sprt" /\ sprt_penta_stats # None =>
        PairsCounted(unwrap(sprt_penta_stats)) = Cardinality(Finished) \div 2

\* C22: in every state of an SPRT tournament, rounds finished in any order,
\* the six categories of the pentanomial tally that sprt_penta_stats builds
\* from finished_games, and returns when it returns, sum to the number of
\* pairs (2k, 2k+1) of which both games are finished; that is at most the
\* number of finished games divided by two, and equal to it when no more
\* than one finished game waits for its partner.
C22_TallyCountsCompletePairs ==
    tournament_type.kind = "Sprt" =>
        LET t == penta_after(num_chunks) IN
        /\ PairsCounted(t) = Cardinality(CompletePairs)
        /\ PairsCounted(t) <= Cardinality(Finished) \div 2
        /\ Cardinality(Finished) - 2 * Cardinality(CompletePairs) <= 1 =>
               PairsCounted(t) = Cardinality(Finished) \div 2
        /\ sprt_penta_stats # None =>
               PairsCounted(unwrap(sprt_penta_stats)) = Cardinality(CompletePairs)

\* four SPRT games, both pairs complete and of the same category
C22_Witness ==
    /\ tournament_type.kind = "Sprt"
    /\ num_games = 4
    /\ Finished = 0..3
    /\ sprt_penta_stats = Some([no_pairs EXCEPT !.dd = 2])

\* the result of a finished round as the table reads it: White, Black or
\* Draw, a record without result being a Draw
TableResult(r) ==
    LET str == unwrap(finished_games[r]).game_result_str IN
    IF str = "1-0" THEN "White" ELSE IF str = "0-1" THEN "Black" ELSE "Draw"

\* the category of a pair of results
TableCategory(r1, r2) ==
    CASE <<r1, r2>> = <<"White", "Black">> -> "ll"
      [] <<r1, r2>> \in {<<"White", "Draw">>, <<"Draw", "Black">>} -> "dl"
      [] <<r1, r2>> \in {<<"White", "White">>, <<"Black", "Black">>} -> "wl"
      [] <<r1, r2>> = <<"Draw", "Draw">> -> "dd"
      [] <<r1, r2>> \in {<<"Black", "Draw">>, <<"Draw", "White">>} -> "wd"
      [] <<r1, r2>> = <<"Black", "White">> -> "ww"

\* C23: passing a pair of rounds (2k, 2k+1) of which both games are finished,
\* with results (r1, r2) and a None result read as Draw, sprt_penta_stats
\* adds one to exactly one category, the one of the table: (White,Black) LL;
\* (White,Draw), (Draw,Black) DL; (White,White), (Black,Black) WL;
\* (Draw,Draw) DD; (Black,Draw), (Draw,White) WD; (Black,White) WW. Passing
\* a pair with only one finished game, or none, it changes no category.
C23_PairCategory ==
    \A k \in 0..(MaxScoreGames \div 2) :
        2 * k + 1 < num_games =>
            IF {2 * k, 2 * k + 1} \subseteq Finished
            THEN penta_after(k + 1) =
                     [penta_after(k) EXCEPT
                         ![TableCategory(TableResult(2 * k), TableResult(2 * k + 1))] = @ + 1]
            ELSE penta_after(k + 1) = penta_after(k)

\* four games: White won the first and the second has a placeholder (DL),
\* the third is left unfinished beside a finished fourth
C23_Witness ==
    /\ tournament_type.kind = "Sprt"
    /\ num_games = 4
    /\ finished_games[0] = Some(Game(MaxPlies, "1-0", "", 0))
    /\ finished_games[1] = Some(Placeholder)
    /\ finished_games[2] = None
    /\ finished_games[3] # None
    /\ sprt_penta_stats = Some([no_pairs EXCEPT !.dl = 1])

\* C24: with the LLR taken as given, a print_score that reaches the SPRT
\* decision of an SPRT tournament with parameters sets the shutdown flag if
\* LLR <= lower bound or LLR >= upper bound and leaves it as it is when
\* lower < LLR < upper; in every other shape, in the SPRT shape without
\* parameters, and in a call that panics before the decision, print_score
\* does not write the flag.
C24_SprtStopsAtBounds ==
    [][\A w \in Workers :
          PrintScore(w) =>
              IF tournament_type.kind = "Sprt" /\ sprt /\ ~print_score_panics
              THEN /\ llr <= lower_bound \/ llr >= upper_bound => is_shutting_down'
                   /\ lower_bound < llr /\ llr < upper_bound =>
                          is_shutting_down' = is_shutting_down
              ELSE is_shutting_down' = is_shutting_down]_vars

\* print_score has stopped an SPRT tournament at the lower bound
C24_Witness ==
    /\ tournament_type.kind = "Sprt"
    /\ sprt
    /\ llr = lower_bound
    /\ is_shutting_down
    /\ \A w \in Workers : pc[w] = "loop"

(* ------------------- engine options and the handshake ------------------ *)
\* a &str is the sequence of its characters
DigitValue == ("0" :> 0) @@ ("1" :> 1) @@ ("2" :> 2) @@ ("3" :> 3) @@ ("4" :> 4) @@
              ("5" :> 5) @@ ("6" :> 6) @@ ("7" :> 7) @@ ("8" :> 8) @@ ("9" :> 9)
DigitChar == <<"0", "1", "2", "3", "4", "5", "6", "7", "8", "9">>
True == <<"t", "r", "u", "e">>
False == <<"f", "a", "l", "s", "e">>

all_digits(text) == \A i \in 1..Len(text) : text[i] \in DOMAIN DigitValue

RECURSIVE digits_value(_)
digits_value(text) ==
    IF text = <<>> THEN 0
    ELSE 10 * digits_value(SubSeq(text, 1, Len(text) - 1)) + DigitValue[text[Len(text)]]

\* `value.parse::<i64>()`: an optional sign and at least one digit
parse_i64(text) ==
    LET signed == text # <<>> /\ text[1] \in {"+", "-"}
        digits == IF signed THEN Tail(text) ELSE text
    IN  IF digits = <<>> \/ ~all_digits(digits) THEN None
        ELSE IF signed /\ text[1] = "-" THEN Some(0 - digits_value(digits))
        ELSE Some(digits_value(digits))

\* `value.parse::<bool>()`
parse_bool(text) ==
    IF text = True THEN Some(TRUE) ELSE IF text = False THEN Some(FALSE) ELSE None

RECURSIVE natural_to_string(_)
natural_to_string(n) ==
    IF n < 10 THEN <<DigitChar[n + 1]>>
    ELSE Append(natural_to_string(n \div 10), DigitChar[(n % 10) + 1])

\* the decimal text of an i64
i64_to_string(n) == IF n < 0 THEN <<"-">> \o natural_to_string(0 - n) ELSE natural_to_string(n)

\* enum UciOptionType
Check(value) == [kind |-> "Check", value |-> value]
Spin(value, min, max) == [kind |-> "Spin", value |-> value, min |-> min, max |-> max]
Combo(value, possible_values) ==
    [kind |-> "Combo", value |-> value, possible_values |-> possible_values]
Button == [kind |-> "Button"]
String(value) == [kind |-> "String", value |-> value]
\* struct UciOption
UciOption(name, option_type) == [name |-> name, option_type |-> option_type]

\* a range check that forgets the upper end of a spin option
value_is_supported_from_min(option_type, value) ==
    CASE option_type.kind = "Check" -> value = True \/ value = False
      [] option_type.kind = "Spin" ->
             parse_i64(value) # None /\ unwrap(parse_i64(value)) >= option_type.min
      [] option_type.kind = "Combo" ->
             \E i \in 1..Len(option_type.possible_values) :
                 option_type.possible_values[i] = value
      [] option_type.kind = "Button" -> FALSE
      [] option_type.kind = "String" -> TRUE

\* UciOptionType::value_is_supported
value_is_supported(option_type, value) ==
    CASE option_type.kind = "Check" -> value = True \/ value = False
      [] option_type.kind = "Spin" ->
             IF parse_i64(value) # None
             THEN /\ unwrap(parse_i64(value)) >= option_type.min
                  /\ unwrap(parse_i64(value)) <= option_type.max
             ELSE FALSE
      [] option_type.kind = "Combo" ->
             \E i \in 1..Len(option_type.possible_values) :
                 option_type.possible_values[i] = value
      [] option_type.kind = "Button" -> FALSE
      [] option_type.kind = "String" -> TRUE

\* UciOptionType::set_value; `.parse().unwrap()` of a text that does not
\* parse panics, and here has no value
set_value(option_type, value) ==
    CASE option_type.kind = "Check" -> [option_type EXCEPT !.value = unwrap(parse_bool(value))]
      [] option_type.kind = "Spin" -> [option_type EXCEPT !.value = unwrap(parse_i64(value))]
      [] option_type.kind = "Combo" -> [option_type EXCEPT !.value = value]
      [] option_type.kind = "Button" -> option_type
      [] option_type.kind = "String" -> [option_type EXCEPT !.value = value]

\* UciOptionType::get_value: the stored current value as a text
get_value(option_type) ==
    CASE option_type.kind = "Check" -> IF option_type.value THEN True ELSE False
      [] option_type.kind = "Spin" -> i64_to_string(option_type.value)
      [] option_type.kind = "Combo" -> option_type.value
      [] option_type.kind = "Button" -> <<>>
      [] option_type.kind = "String" -> option_type.value

\* `.iter().find(|option| option.name == name)`: the index of the first
\* option of that name
has_option(opts, name) == \E i \in 1..Len(opts) : opts[i].name = name
find(opts, name) ==
    CHOOSE i \in 1..Len(opts) :
        opts[i].name = name /\ \A j \in 1..(i - 1) : opts[j].name # name

\* Engine::supports_option_value
supports_option_value(opts, name, value) ==
    IF has_option(opts, name)
    THEN value_is_supported(opts[find(opts, name)].option_type, value)
    ELSE FALSE

\* Engine::supports_options_from_builder
supports_options_from_builder(opts, desired) ==
    \A k \in 1..Len(desired) : supports_option_value(opts, desired[k][1], desired[k][2])

\* the line `setoption name {} value {}`
setoption(name, value) == <<"setoption", name, value>>

\* Engine::set_option: the option list afterwards and the lines written
set_option(opts, name, value) ==
    LET i == find(opts, name) IN
    IF get_value(opts[i].option_type) # value
    THEN [options |-> [opts EXCEPT ![i].option_type = set_value(@, value)],
          written |-> <<setoption(name, value)>>]
    ELSE [options |-> opts, written |-> <<>>]

\* a handshake that adds nothing to what the engine declared
declared_only(declared) == declared

\* EngineBuilder::init after `teiok`: the options the engine declared, and
\* HalfKomi as Spin(0, 0, 0) when it declared none of that name
with_half_komi(declared) ==
    IF ~has_option(declared, "HalfKomi")
    THEN Append(declared, UciOption("HalfKomi", Spin(0, 0, 0)))
    ELSE declared

\* what an engine may declare in its `option` lines
DeclaredLists ==
    { <<>>,
      <<UciOption("Threads", Spin(5, 0, 10)), UciOption("Ponder", Check(FALSE)),
        UciOption("Style", Combo(<<"a">>, <<(<<"a">>), (<<"b">>)>>)),
        UciOption("Clear", Button), UciOption("NN", String(<<>>))>>,
      <<UciOption("HalfKomi", Spin(0, 0 - 10, 10)), UciOption("Threads", Spin(5, 0, 10))>> }

\* the option names and values a user may give an engine on the command line
OptionNames == {"Threads", "Ponder", "Style", "Clear", "NN", "Hash"}
OptionValues == {<<"5">>, <<"0", "5">>, <<"7">>, <<"1", "1">>, True, <<"a">>}
\* the half komi a tournament may be played with
KomiValues == {0, 4}

\* EngineBuilder.desired_uci_options: at most one option of the user, and the
\* half komi of the tournament as the option HalfKomi
DesiredLists(half_komi) ==
    LET komi == <<(<<"HalfKomi", i64_to_string(half_komi)>>)>> IN
    {komi} \cup {<<(<<name, value>>)>> \o komi : name \in OptionNames, value \in OptionValues}

EngineIdsOf(t) == 0..(num_engines(t) - 1)

\* the tournament before Tournament::play has started an engine
OptionInit ==
    /\ tournament_type = [kind |-> "RoundRobin", n |-> 2]
    /\ sprt = FALSE
    /\ num_games = 2
    /\ \E half_komi \in KomiValues :
           desired_uci_options \in [EngineIdsOf(tournament_type) -> DesiredLists(half_komi)]
    /\ openings = <<Opening(0, 0)>>
    /\ openings_start_index = 0
    /\ game_time = [id \in EngineIdsOf(tournament_type) |-> 1]
    /\ increment = [id \in EngineIdsOf(tournament_type) |-> 0]
    /\ scheduled_games = collect
    /\ next_game_id = 0
    /\ finished_games = [r \in 0..(num_games - 1) |-> None]
    /\ poisoned = FALSE
    /\ pending_games = <<>>
    /\ next_game_number = 0
    /\ pgn_out = <<>>
    /\ is_shutting_down = FALSE
    /\ llr = 0
    /\ pc = [w \in Workers |-> "unstarted"]
    /\ scheduled_game = [w \in Workers |-> None]
    /\ moves = [w \in Workers |-> 0]
    /\ game = [w \in Workers |-> None]
    /\ io_error = [w \in Workers |-> NoError]
    /\ engines = [w \in Workers |-> [id \in EngineIdsOf(tournament_type) |-> DefaultHalfKomi]]
    /\ main_pc = "init"
    /\ dispatched = [r \in 0..(num_games - 1) |-> 0]
    /\ white_time = [w \in Workers |-> 0]
    /\ black_time = [w \in Workers |-> 0]
    /\ position = [w \in Workers |-> StartPosition]
    /\ HandshakeDone

\* the engine processes in the order `(0..threads).map(|id| Worker { engines:
\* engine_builders.iter().map(..) })` starts them
Processes == Workers \X EngineIdsOf(tournament_type)
Before(p, q) == p[1] < q[1] \/ (p[1] = q[1] /\ p[2] < q[2])
Started == {p \in Processes : options[p[1]][p[2]] # None}
\* the process Tournament::play starts next, and the one it is busy with
NextProcess == CHOOSE p \in Processes \ Started : \A q \in Processes \ Started : ~Before(q, p)
CurrentProcess == CHOOSE p \in Started : \A q \in Started : ~Before(p, q)

\* what the handshake leaves alone
outsideHandshake == <<processVars, moveVars, cliVars, lockVars, configVars, gameVars,
                      writerVars, stdout,
                      next_game_id, finished_games,
                      poisoned, is_shutting_down, llr, scheduled_game, moves, game,
                      io_error, engines, dispatched>>

\* builder.init() is Ok: `tei` is written, the option lines up to `teiok`
\* are taken in and HalfKomi is added if it is not among them
EngineInit(declared) ==
    /\ main_pc = "init"
    /\ Started # Processes
    /\ LET w == NextProcess[1]
           id == NextProcess[2]
       IN  /\ options' = [options EXCEPT ![w][id] = Some(with_half_komi(declared))]
           /\ stdin' = [stdin EXCEPT ![w][id] = Append(@, <<"tei">>)]
    /\ main_pc' = "supports"
    /\ UNCHANGED <<outsideHandshake, pc, option_index>>

\* builder.init() is Err: exit_with_error
EngineInitFails ==
    /\ main_pc = "init"
    /\ Started # Processes
    /\ main_pc' = "exited"
    /\ UNCHANGED <<outsideHandshake, pc, handshakeVars>>

\* `if engine.supports_options_from_builder()`, else exit_with_error
SupportsOptions ==
    /\ main_pc = "supports"
    /\ LET w == CurrentProcess[1]
           id == CurrentProcess[2]
       IN  IF supports_options_from_builder(unwrap(options[w][id]), desired_uci_options[id])
           THEN main_pc' = "set" /\ option_index' = 0
           ELSE main_pc' = "exited" /\ UNCHANGED option_index
    /\ UNCHANGED <<outsideHandshake, pc, options, stdin>>

\* set_options_from_builder: the set_option call of the next desired option
SetOption ==
    /\ main_pc = "set"
    /\ LET w == CurrentProcess[1]
           id == CurrentProcess[2]
       IN  /\ option_index < Len(desired_uci_options[id])
           /\ LET desired == desired_uci_options[id][option_index + 1]
                  set == set_option(unwrap(options[w][id]), desired[1], desired[2])
              IN  /\ options' = [options EXCEPT ![w][id] = Some(set.options)]
                  /\ stdin' = [stdin EXCEPT ![w][id] = @ \o set.written]
    /\ option_index' = option_index + 1
    /\ UNCHANGED <<outsideHandshake, pc, main_pc>>

\* set_options_from_builder after its loop: do_isready_sync; then the next
\* engine is started, or all are and the worker threads can be
IsReady ==
    /\ main_pc = "set"
    /\ LET w == CurrentProcess[1]
           id == CurrentProcess[2]
       IN  /\ option_index = Len(desired_uci_options[id])
           /\ stdin' = [stdin EXCEPT ![w][id] = Append(@, <<"isready">>)]
    /\ main_pc' = IF Started = Processes THEN "spawn" ELSE "init"
    /\ UNCHANGED <<outsideHandshake, pc, options, option_index>>

\* Tournament::play spawns the worker threads
SpawnWorkers ==
    /\ main_pc = "spawn"
    /\ pc' = [w \in Workers |-> "loop"]
    /\ main_pc' = "join"
    /\ UNCHANGED <<outsideHandshake, handshakeVars>>

\* a worker thread begins a game: play_game writes `teinewgame {size}` to
\* the white and the black engine
TeiNewGame(w) ==
    /\ pc[w] = "loop"
    /\ stdin' = [stdin EXCEPT ![w] = [id \in DOMAIN @ |-> Append(@[id], <<"teinewgame">>)]]
    /\ pc' = [pc EXCEPT ![w] = "play"]
    /\ UNCHANGED <<outsideHandshake, main_pc, options, option_index>>

OptionNext ==
    \/ \E declared \in DeclaredLists : EngineInit(declared)
    \/ EngineInitFails
    \/ SupportsOptions
    \/ SetOption
    \/ IsReady
    \/ SpawnWorkers
    \/ \E w \in Workers : TeiNewGame(w)

OptionSpec == OptionInit /\ [][OptionNext]_vars

(* --------------------- claims on the engine options -------------------- *)
\* a line of this command has been written to the engine process
Sent(w, id, command) == \E i \in 1..Len(stdin[w][id]) : stdin[w][id][i][1] = command

\* the value lies in the range the declared type permits
Permitted(option_type, value) ==
    \/ option_type.kind = "Check" /\ value \in {True, False}
    \/ option_type.kind = "Spin" /\ \E v \in option_type.min..option_type.max :
                                        parse_i64(value) = Some(v)
    \/ option_type.kind = "Combo" /\ \E i \in 1..Len(option_type.possible_values) :
                                         option_type.possible_values[i] = value
    \/ option_type.kind = "String"

\* some desired option is not in the option list of the engine, or its value
\* is outside the permitted range
Unsupported(opts, desired) ==
    \E k \in 1..Len(desired) :
        ~\E i \in 1..Len(opts) : /\ opts[i].name = desired[k][1]
                                 /\ Permitted(opts[i].option_type, desired[k][2])

\* C25: when a desired option of an engine names an option that is not in the
\* option list the engine has after its handshake, or a value outside the
\* range its type permits, no setoption line is written to that engine, the
\* coordinator is at the check or has exited, no worker thread is started and
\* no teinewgame has been written to any engine.
C25_UnsupportedOptionAborts ==
    \A p \in Started :
        Unsupported(unwrap(options[p[1]][p[2]]), desired_uci_options[p[2]]) =>
            /\ ~Sent(p[1], p[2], "setoption")
            /\ main_pc \in {"supports", "exited"}
            /\ \A w \in Workers : pc[w] = "unstarted"
            /\ \A q \in Processes : ~Sent(q[1], q[2], "teinewgame")

\* the tournament has exited on an engine whose options are not supported,
\* after an engine before it was sent a setoption line
C25_Witness ==
    /\ main_pc = "exited"
    /\ \E p \in Started :
           Unsupported(unwrap(options[p[1]][p[2]]), desired_uci_options[p[2]])
    /\ \E q \in Started : Sent(q[1], q[2], "setoption")

\* the text is the stored current value of the option, read as a value of
\* the option's type
SameValue(option_type, value) ==
    \/ option_type.kind = "Check" /\ parse_bool(value) = Some(option_type.value)
    \/ option_type.kind = "Spin" /\ parse_i64(value) = Some(option_type.value)
    \/ option_type.kind \in {"Combo", "String"} /\ value = option_type.value

\* C26: set_option writes the setoption line and stores the value exactly
\* when the value differs from the stored one, writes nothing and changes
\* nothing when it is the stored one, and called a second time with the same
\* value writes nothing.
C26_SetOptionIdempotent ==
    main_pc = "set" /\ option_index < Len(desired_uci_options[CurrentProcess[2]]) =>
        LET opts == unwrap(options[CurrentProcess[1]][CurrentProcess[2]])
            name == desired_uci_options[CurrentProcess[2]][option_index + 1][1]
            value == desired_uci_options[CurrentProcess[2]][option_index + 1][2]
            option_type == opts[find(opts, name)].option_type
            first == set_option(opts, name, value)
            second == set_option(first.options, name, value)
        IN  /\ SameValue(option_type, value) =>
                first.written = <<>> /\ first.options = opts
            /\ ~SameValue(option_type, value) =>
                /\ first.written = <<setoption(name, value)>>
                /\ SameValue(first.options[find(opts, name)].option_type, value)
            /\ Len(first.written) + Len(second.written) <= 1

\* the option list of the process has HalfKomi as the implicit spin option
ImplicitHalfKomi(opts) ==
    opts[find(opts, "HalfKomi")].option_type \in {Spin(0, 0, 0)}

\* the step is the handshake of process p with an engine that declared this
HandshakeOf(p, declared) ==
    /\ options[p[1]][p[2]] = None
    /\ options'[p[1]][p[2]] # None
    /\ \A i \in 1..Len(declared) : unwrap(options'[p[1]][p[2]])[i] = declared[i]
    /\ Len(unwrap(options'[p[1]][p[2]])) \in {Len(declared), Len(declared) + 1}

\* C27: a handshake leaves the options the engine declared, followed, when
\* none of them is named HalfKomi, by HalfKomi as a spin option of value 0,
\* min 0 and max 0; every option list has an option HalfKomi; and for an
\* engine with the implicit one, HalfKomi 0 is supported and no setoption
\* line for HalfKomi is written, and no other HalfKomi is supported.
C27_ImplicitHalfKomi ==
    /\ [](\A p \in Started :
            LET opts == unwrap(options[p[1]][p[2]]) IN
            /\ has_option(opts, "HalfKomi")
            /\ ImplicitHalfKomi(opts) =>
                   /\ \A half_komi \in (0 - 4)..4 :
                          supports_option_value(opts, "HalfKomi", i64_to_string(half_komi))
                              <=> half_komi = 0
                   /\ \A i \in 1..Len(stdin[p[1]][p[2]]) :
                          stdin[p[1]][p[2]][i][1] = "setoption" =>
                              stdin[p[1]][p[2]][i][2] # "HalfKomi")
    /\ [][\A p \in Processes : \A declared \in DeclaredLists :
              HandshakeOf(p, declared) =>
                  unwrap(options'[p[1]][p[2]]) =
                      IF \E i \in 1..Len(declared) : declared[i].name = "HalfKomi"
                      THEN declared
                      ELSE declared \o <<[name |-> "HalfKomi",
                                          option_type |-> [kind |-> "Spin", value |-> 0,
                                                           min |-> 0, max |-> 0]]>>]_vars

\* an engine that declared no HalfKomi went through set_options_from_builder
\* with a desired HalfKomi of 0 and has answered the isready after it
C27_Witness ==
    \E p \in Started :
        /\ ImplicitHalfKomi(unwrap(options[p[1]][p[2]]))
        /\ Sent(p[1], p[2], "isready")
        /\ \E k \in 1..Len(desired_uci_options[p[2]]) :
               desired_uci_options[p[2]][k] = <<"HalfKomi", <<"0">>>>

(* ----------------------- the locks of the worker pool ------------------ *)
\* Tournament.games_schedule, Tournament.finished_games, Tournament.pgn_writer
Locks == {"games_schedule", "finished_games", "pgn_writer"}

\* no thread holds the guard of the mutex
Free(lock) == \A v \in Workers : lock \notin held[v]

\* the tournament with its games scheduled and the worker threads spawned
LockInit ==
    /\ tournament_type \in TournamentTypes
    /\ sprt \in {b \in BOOLEAN : b => tournament_type.kind = "Sprt"}
    /\ num_games \in 1..MaxGames
    /\ desired_uci_options = DefaultHalfKomi
    /\ openings = <<Opening(0, 0)>>
    /\ openings_start_index = 0
    /\ game_time = [id \in 0..(num_engines(tournament_type) - 1) |-> 1]
    /\ increment = [id \in 0..(num_engines(tournament_type) - 1) |-> 0]
    /\ scheduled_games = collect
    /\ PoolInit

\* what the taking and dropping of guards leaves alone
outsideLocks == <<processVars, moveVars, cliVars, handshakeVars, configVars, gameVars,
                  writerVars, finished_games,
                  is_shutting_down, llr, scheduled_game, moves, game, io_error, engines,
                  main_pc, dispatched>>

\* next_unplayed_game: `self.games_schedule.lock().unwrap()` returns once the
\* mutex is free; of a poisoned mutex the unwrap panics and the guard held
\* by the error is dropped
LockGamesSchedule(w) ==
    /\ pc[w] = "loop"
    /\ Free("games_schedule")
    /\ IF poisoned
       THEN pc' = [pc EXCEPT ![w] = "panicked"] /\ UNCHANGED held
       ELSE /\ pc' = [pc EXCEPT ![w] = "next"]
            /\ held' = [held EXCEPT ![w] = @ \cup {"games_schedule"}]
    /\ UNCHANGED <<outsideLocks, next_game_id, poisoned>>

\* next_unplayed_game under its guard, which is dropped on return; `while let
\* Some(..)` ends the loop on None
UnlockGamesSchedule(w) ==
    /\ pc[w] = "next"
    /\ IF next_game_id < num_games
       THEN next_game_id' = next_game_id + 1 /\ pc' = [pc EXCEPT ![w] = "play"]
       ELSE UNCHANGED next_game_id /\ pc' = [pc EXCEPT ![w] = "done"]
    /\ held' = [held EXCEPT ![w] = @ \ {"games_schedule"}]
    /\ UNCHANGED <<outsideLocks, poisoned>>

\* the flag check and play_game, which take none of the locks
PlayUnlocked(w) ==
    /\ pc[w] = "play"
    /\ pc' = [pc EXCEPT ![w] = "store"]
    /\ UNCHANGED <<outsideLocks, next_game_id, poisoned, held>>

\* `thread_tournament.finished_games.lock().unwrap()`
LockFinishedGames(w) ==
    /\ pc[w] = "store"
    /\ Free("finished_games")
    /\ IF poisoned
       THEN pc' = [pc EXCEPT ![w] = "panicked"] /\ UNCHANGED held
       ELSE /\ pc' = [pc EXCEPT ![w] = "stored"]
            /\ held' = [held EXCEPT ![w] = @ \cup {"finished_games"}]
    /\ UNCHANGED <<outsideLocks, next_game_id, poisoned>>

\* a block that goes on to the next lock with its guard still alive
guard_kept(guards, lock) == guards

\* the end of the block `{ let mut finished_games = ..; .. }`, and of the
\* statement `writer.lock().unwrap().submit_game(..)`: the guard is dropped
guard_dropped(guards, lock) == guards \ {lock}

\* the slot is written and the block of the guard ends
UnlockFinishedGames(w) ==
    /\ pc[w] = "stored"
    /\ held' = [held EXCEPT ![w] = guard_dropped(@, "finished_games")]
    /\ pc' = [pc EXCEPT ![w] = "submit"]
    /\ UNCHANGED <<outsideLocks, next_game_id, poisoned>>

\* `writer.lock().unwrap()`
LockPgnWriter(w) ==
    /\ pc[w] = "submit"
    /\ Free("pgn_writer")
    /\ held' = [held EXCEPT ![w] = @ \cup {"pgn_writer"}]
    /\ pc' = [pc EXCEPT ![w] = "submitted"]
    /\ UNCHANGED <<outsideLocks, next_game_id, poisoned>>

\* submit_game under the guard, dropped at the end of the statement
UnlockPgnWriter(w) ==
    /\ pc[w] = "submitted"
    /\ held' = [held EXCEPT ![w] = guard_dropped(@, "pgn_writer")]
    /\ pc' = [pc EXCEPT ![w] = "print"]
    /\ UNCHANGED <<outsideLocks, next_game_id, poisoned>>

\* print_score: `if let Ok(schedule) = self.games_schedule.try_lock()`; Err,
\* of a held or a poisoned mutex, goes round the loop
TryLockGamesSchedule(w) ==
    /\ pc[w] = "print"
    /\ IF Free("games_schedule") /\ ~poisoned
       THEN /\ held' = [held EXCEPT ![w] = @ \cup {"games_schedule"}]
            /\ pc' = [pc EXCEPT ![w] = "print2"]
       ELSE UNCHANGED <<held, pc>>
    /\ UNCHANGED <<outsideLocks, next_game_id, poisoned>>

\* a retry loop that goes round with the guard of the schedule in hand
first_guard_kept(guards) == guards

\* the inner `if let` fails: the block of `schedule` ends, its guard is
\* dropped
first_guard_dropped(guards) == guards \ {"games_schedule"}

\* print_score: `if let Ok(finished_games) = self.finished_games.try_lock()`
TryLockFinishedGames(w) ==
    /\ pc[w] = "print2"
    /\ IF Free("finished_games") /\ ~poisoned
       THEN /\ held' = [held EXCEPT ![w] = @ \cup {"finished_games"}]
            /\ pc' = [pc EXCEPT ![w] = "score"]
       ELSE /\ held' = [held EXCEPT ![w] = first_guard_dropped(@)]
            /\ pc' = [pc EXCEPT ![w] = "print"]
    /\ UNCHANGED <<outsideLocks, next_game_id, poisoned>>

\* the rest of print_score under both guards; they are dropped when it
\* returns, and when it panics, which poisons the two mutexes
ScoreLocked(w, panics) ==
    /\ pc[w] = "score"
    /\ held' = [held EXCEPT ![w] = {}]
    /\ IF panics
       THEN poisoned' = TRUE /\ pc' = [pc EXCEPT ![w] = "panicked"]
       ELSE UNCHANGED poisoned /\ pc' = [pc EXCEPT ![w] = "loop"]
    /\ UNCHANGED <<outsideLocks, next_game_id>>

\* the steps of worker thread w
LockStep(w) ==
    \/ LockGamesSchedule(w)
    \/ UnlockGamesSchedule(w)
    \/ PlayUnlocked(w)
    \/ LockFinishedGames(w)
    \/ UnlockFinishedGames(w)
    \/ LockPgnWriter(w)
    \/ UnlockPgnWriter(w)
    \/ TryLockGamesSchedule(w)
    \/ TryLockFinishedGames(w)
    \/ \E panics \in BOOLEAN : ScoreLocked(w, panics)

LockNext == \E w \in Workers : LockStep(w)

LockSpec == LockInit /\ [][LockNext]_vars

(* --------------------------- claims on the locks ----------------------- *)
\* the worker is inside print_score
InPrintScore(w) == pc[w] \in {"print", "print2", "score"}
\* the mutex whose lock() the worker is calling
BlockingOn(w) ==
    CASE pc[w] = "loop" -> {"games_schedule"}
      [] pc[w] = "store" -> {"finished_games"}
      [] pc[w] = "submit" -> {"pgn_writer"}
      [] OTHER -> {}
\* the thread has not ended
Alive(w) == pc[w] \notin {"done", "panicked"}

\* C28: outside print_score a worker holds at most one of the three guards,
\* and none while it calls a blocking lock(); in print_score it takes the
\* schedule and then finished_games by steps that never wait, and a failed
\* second try drops the first guard; a worker that waits for a mutex waits
\* for one whose holder can take a step, so no set of workers waits in a
\* circle.
C28_AtMostOneLock ==
    /\ [](\A w \in Workers :
            /\ ~InPrintScore(w) => Cardinality(held[w]) <= 1
            /\ BlockingOn(w) # {} => held[w] = {}
            /\ InPrintScore(w) => ENABLED LockStep(w)
            /\ held[w] \subseteq (IF pc[w] = "score" THEN {"games_schedule", "finished_games"}
                                  ELSE IF pc[w] = "print2" THEN {"games_schedule"}
                                  ELSE Locks)
            /\ Alive(w) /\ ~ENABLED LockStep(w) =>
                   \E v \in Workers \ {w} : /\ BlockingOn(w) \subseteq held[v]
                                            /\ ENABLED LockStep(v))
    /\ [][\A w \in Workers :
              /\ pc[w] = "print2" /\ pc'[w] = "print" => held'[w] = {}
              /\ pc[w] = "print" => held'[w] \subseteq {"games_schedule"}]_vars

\* one worker waits in lock() for finished_games while another holds it,
\* together with the schedule, in print_score
C28_Witness ==
    \E w \in Workers, v \in Workers :
        /\ pc[w] = "store" /\ ~ENABLED LockStep(w)
        /\ pc[v] = "score" /\ held[v] = {"games_schedule", "finished_games"}

(* ------------------------- the time control argument ------------------- *)
\* longest part of a time control that is drawn character by character
MaxTcChars == 3
\* the digits after the point that a parsed number keeps
MaxFraction == 4

TcChars == {"0", "5", "6", "."}
\* every text of up to MaxTcChars of these characters
TcParts == UNION {[1..n -> TcChars] : n \in 0..MaxTcChars}
\* some more parts: not numbers, signed, and fractions of a millisecond
MoreTcParts == { <<>>, <<"5">>, <<"6", "0">>, <<"0", ".", "1">>, <<"0", ".", "6">>,
                 <<"a">>, <<"a", "b", "c">>, <<"5", "a">>, <<"-", "5">>,
                 <<"0", ".", "0", "0", "0", "9">>, <<"1", ".", "0", "0", "0", "6">>,
                 <<"1", ".", "0", "0", "0", "4">> }
\* the arguments: a time alone, a time and an increment, and one with a
\* second `+`
TcStrings ==
    (TcParts \cup MoreTcParts)
    \cup {time \o <<"+">> \o inc : time \in TcParts, inc \in MoreTcParts}
    \cup {time \o <<"+">> \o inc : time \in MoreTcParts, inc \in TcParts \cup MoreTcParts}
    \cup {<<"1", "+", "1", "+", "1">>, <<"1", "+", "1", "+", "a">>}

\* `input.split('+')`: the parts between the `+` characters
RECURSIVE split(_)
split(text) ==
    IF \A i \in 1..Len(text) : text[i] # "+" THEN <<text>>
    ELSE LET i == CHOOSE i \in 1..Len(text) :
                      text[i] = "+" /\ \A j \in 1..(i - 1) : text[j] # "+"
         IN  <<SubSeq(text, 1, i - 1)>> \o split(SubSeq(text, i + 1, Len(text)))

RECURSIVE power_of_ten(_)
power_of_ten(n) == IF n = 0 THEN 1 ELSE 10 * power_of_ten(n - 1)

\* f64::from_str of a text without exponent: an optional sign, digits with
\* at most one point among them and at least one digit; the number as its
\* sign and its count of units of 10^-MaxFraction.  The number is kept as the
\* decimal that was written: on the texts drawn here the f64 nearest to it,
\* times 1000.0, has the same whole part as the decimal times 1000.
f64_from_str(text) ==
    LET signed == text # <<>> /\ text[1] \in {"+", "-"}
        unsigned == IF signed THEN Tail(text) ELSE text
        points == {i \in 1..Len(unsigned) : unsigned[i] = "."}
        whole == IF points = {} THEN unsigned
                 ELSE SubSeq(unsigned, 1, (CHOOSE i \in points : TRUE) - 1)
        fraction == IF points = {} THEN <<>>
                    ELSE SubSeq(unsigned, (CHOOSE i \in points : TRUE) + 1, Len(unsigned))
    IN  IF \/ Cardinality(points) > 1
           \/ ~all_digits(whole) \/ ~all_digits(fraction)
           \/ Len(whole) + Len(fraction) = 0
           \/ Len(fraction) > MaxFraction
        THEN None
        ELSE Some([negative |-> signed /\ text[1] = "-",
                   units |-> digits_value(whole) * power_of_ten(MaxFraction)
                             + digits_value(fraction)
                               * power_of_ten(MaxFraction - Len(fraction))])

\* `* 1000.0`: a millisecond is 10^-3 s, so many units of 10^-MaxFraction
MillisDigits == 3
units_per_milli == power_of_ten(MaxFraction - MillisDigits)

\* a conversion that rounds to the nearest millisecond
millis_rounded(number) ==
    IF number.negative THEN 0
    ELSE (number.units + units_per_milli \div 2) \div units_per_milli

\* `(x * 1000.0) as u64`: the cast drops the fraction, and gives 0 for a
\* negative number
millis_as_u64(number) ==
    IF number.negative THEN 0 ELSE number.units \div units_per_milli

\* parse_tc: Err, or Ok of the time and the increment in milliseconds
parse_tc(input) ==
    LET parts == split(input)
        time_part == parts[1]
        inc_part == IF Len(parts) > 1 THEN Some(parts[2]) ELSE None
    IN  IF f64_from_str(time_part) = None THEN <<"Err">>
        ELSE IF inc_part # None /\ f64_from_str(unwrap(inc_part)) = None THEN <<"Err">>
        ELSE <<"Ok", millis_as_u64(unwrap(f64_from_str(time_part))),
               IF inc_part # None THEN millis_as_u64(unwrap(f64_from_str(unwrap(inc_part))))
               ELSE 0>>

\* the command line before the tc argument of an engine is parsed
TcInit ==
    /\ tournament_type = [kind |-> "RoundRobin", n |-> 2]
    /\ sprt = FALSE
    /\ num_games = 1
    /\ desired_uci_options = DefaultHalfKomi
    /\ openings = <<Opening(0, 0)>>
    /\ openings_start_index = 0
    /\ game_time = [id \in 0..(num_engines(tournament_type) - 1) |-> 1]
    /\ increment = [id \in 0..(num_engines(tournament_type) - 1) |-> 0]
    /\ scheduled_games = collect
    /\ next_game_id = 0
    /\ finished_games = [r \in 0..(num_games - 1) |-> None]
    /\ poisoned = FALSE
    /\ pending_games = <<>>
    /\ next_game_number = 0
    /\ pgn_out = <<>>
    /\ is_shutting_down = FALSE
    /\ llr = 0
    /\ pc = [w \in Workers |-> "unstarted"]
    /\ scheduled_game = [w \in Workers |-> None]
    /\ moves = [w \in Workers |-> 0]
    /\ game = [w \in Workers |-> None]
    /\ io_error = [w \in Workers |-> NoError]
    /\ engines = [w \in Workers |->
                     [id \in 0..(num_engines(tournament_type) - 1) |-> DefaultHalfKomi]]
    /\ main_pc = "cli"
    /\ dispatched = [r \in 0..(num_games - 1) |-> 0]
    /\ white_time = [w \in Workers |-> 0]
    /\ black_time = [w \in Workers |-> 0]
    /\ position = [w \in Workers |-> StartPosition]
    /\ options = [w \in Workers |-> [id \in 0..(num_engines(tournament_type) - 1) |-> None]]
    /\ stdin = [w \in Workers |-> [id \in 0..(num_engines(tournament_type) - 1) |-> <<>>]]
    /\ stdout = [w \in Workers |-> [id \in 0..(num_engines(tournament_type) - 1) |-> <<>>]]
    /\ option_index = 0
    /\ held = [w \in Workers |-> {}]
    /\ NotPlaying
    /\ tc_str \in TcStrings
    /\ tc = None

\* `parser::parse_tc(tc_str)`
ParseTc ==
    /\ tc = None
    /\ tc' = Some(parse_tc(tc_str))
    /\ UNCHANGED <<tc_str, processVars, moveVars, lockVars, handshakeVars, configVars,
                   gameVars, writerVars, poolVars>>

TcNext == ParseTc

TcSpec == TcInit /\ [][TcNext]_vars

(* ---------------------- claims on the time control --------------------- *)
\* digits with at most one point among them and at least one digit
IsDecimal(text) ==
    /\ \A i \in 1..Len(text) : text[i] \in DOMAIN DigitValue \cup {"."}
    /\ Cardinality({i \in 1..Len(text) : text[i] = "."}) <= 1
    /\ \E i \in 1..Len(text) : text[i] # "."

\* the places of `+` in the argument
Pluses == {i \in 1..Len(tc_str) : tc_str[i] = "+"}
TimePart == IF Pluses = {} THEN tc_str
            ELSE SubSeq(tc_str, 1, (CHOOSE i \in Pluses : TRUE) - 1)
IncPart == SubSeq(tc_str, (CHOOSE i \in Pluses : TRUE) + 1, Len(tc_str))

\* round(x * 1000) of the decimal the text writes
RoundedMillis(text) == millis_rounded(unwrap(f64_from_str(text)))

\* C29: parse_tc of `T` gives (round(T * 1000), 0) and of `T+I` gives
\* (round(T * 1000), round(I * 1000)), in milliseconds, for decimals T and I;
\* it fails when a part is not a number.
C29_ParseTcRounds ==
    tc # None /\ Cardinality(Pluses) <= 1 =>
        IF Pluses = {}
        THEN IF IsDecimal(TimePart)
             THEN unwrap(tc) = <<"Ok", RoundedMillis(TimePart), 0>>
             ELSE f64_from_str(TimePart) = None => unwrap(tc) = <<"Err">>
        ELSE IF IsDecimal(TimePart) /\ IsDecimal(IncPart)
             THEN unwrap(tc) = <<"Ok", RoundedMillis(TimePart), RoundedMillis(IncPart)>>
             ELSE f64_from_str(TimePart) = None \/ f64_from_str(IncPart) = None =>
                      unwrap(tc) = <<"Err">>

\* the same with the fraction of a millisecond dropped, not rounded: what
\* parse_tc does
C29_ParseTcTruncates ==
    tc # None /\ Cardinality(Pluses) <= 1 =>
        LET Millis(text) == unwrap(f64_from_str(text)).units \div units_per_milli
        IN  IF Pluses = {}
            THEN IF IsDecimal(TimePart)
                 THEN unwrap(tc) = <<"Ok", Millis(TimePart), 0>>
                 ELSE f64_from_str(TimePart) = None => unwrap(tc) = <<"Err">>
            ELSE IF IsDecimal(TimePart) /\ IsDecimal(IncPart)
                 THEN unwrap(tc) = <<"Ok", Millis(TimePart), Millis(IncPart)>>
                 ELSE f64_from_str(TimePart) = None \/ f64_from_str(IncPart) = None =>
                          unwrap(tc) = <<"Err">>

\* the examples of the claim
C29_Examples ==
    /\ parse_tc(<<"6", "0", "+", "0", ".", "6">>) = <<"Ok", 60000, 600>>
    /\ parse_tc(<<"0", ".", "5", "+", "0", ".", "1">>) = <<"Ok", 500, 100>>
    /\ parse_tc(<<"5">>) = <<"Ok", 5000, 0>>
    /\ parse_tc(<<"a", "b", "c">>) = <<"Err">>

(* ------------------- the game driver, line by line --------------------- *)
\* lines that are not the awaited one which an engine is let to send before
\* it, per engine
MaxOtherLines == 1

\* the steps of the newgame handshake in the order play_game takes them:
\* the colour of the engine and the line
Handshake == <<(<<White, "teinewgame">>), (<<White, "isready">>),
               (<<Black, "teinewgame">>), (<<Black, "isready">>)>>
\* the handshake steps taken so far: the worker is at step pc[w] of them
HandshakePcs == <<"handshake1", "handshake2", "handshake3", "handshake4">>

\* the engine that plays the colour in the game of worker w
EngineOf(w, color) ==
    IF color = White
    THEN unwrap(scheduled_game[w]).white_engine_id
    ELSE unwrap(scheduled_game[w]).black_engine_id

\* Engine::uci_write_line: the line is at the end of what was written to the
\* engine
uci_write_line(w, id, line) == stdin' = [stdin EXCEPT ![w][id] = Append(@, line)]
\* Engine::uci_read_line is Ok of the line
uci_read_line(w, id, line) == stdout' = [stdout EXCEPT ![w][id] = Append(@, line)]
\* how many lines of the command
Count(lines, command) == Cardinality({i \in 1..Len(lines) : lines[i][1] = command})

\* one worker has claimed a round of a head-to-head tournament of two games
\* and passed its flag check; its engines have been through their startup
WireInit ==
    /\ tournament_type = [kind |-> "RoundRobin", n |-> 2]
    /\ sprt = FALSE
    /\ num_games = 2
    /\ desired_uci_options = DefaultHalfKomi
    /\ openings \in {<<Opening(0, n)>> : n \in 0..1}
    /\ openings_start_index = 0
    /\ game_time = [id \in 0..1 |-> 1]
    /\ increment = [id \in 0..1 |-> 0]
    /\ scheduled_games = collect
    /\ \E round_number \in 0..(num_games - 1) :
           /\ next_game_id = round_number + 1
           /\ scheduled_game = [w \in Workers |->
                                   IF w = 1 THEN Some(schedule[round_number]) ELSE None]
           /\ dispatched = [r \in 0..(num_games - 1) |-> IF r <= round_number THEN 1 ELSE 0]
    /\ finished_games = [r \in 0..(num_games - 1) |-> None]
    /\ poisoned = FALSE
    /\ pending_games = <<>>
    /\ next_game_number = 0
    /\ pgn_out = <<>>
    /\ is_shutting_down = FALSE
    /\ llr = 0
    /\ pc = [w \in Workers |-> IF w = 1 THEN HandshakePcs[1] ELSE "done"]
    /\ moves = [w \in Workers |-> 0]
    /\ game = [w \in Workers |-> None]
    /\ io_error = [w \in Workers |-> NoError]
    /\ engines = [w \in Workers |-> [id \in 0..1 |-> desired_uci_options]]
    /\ main_pc = "join"
    /\ white_time = [w \in Workers |-> 0]
    /\ black_time = [w \in Workers |-> 0]
    /\ position = [w \in Workers |-> StartPosition]
    /\ options = [w \in Workers |-> [id \in 0..1 |-> Some(with_half_komi(<<>>))]]
    /\ stdin = [w \in Workers |-> [id \in 0..1 |-> <<(<<"tei">>), (<<"isready">>)>>]]
    /\ stdout = [w \in Workers |-> [id \in 0..1 |-> <<(<<"teiok">>), (<<"readyok">>)>>]]
    /\ option_index = 0
    /\ held = [w \in Workers |-> {}]
    /\ NotPlaying
    /\ tc_str = <<"1">>
    /\ tc = Some(<<"Ok", 1000, 0>>)

\* what the lines of a game leave alone
outsideWire == <<processVars, moveVars, cliVars, lockVars, configVars, writerVars,
                 scheduled_games,
                 scheduled_game, next_game_id, finished_games, poisoned, llr, main_pc,
                 dispatched, options, option_index, engines, white_time, black_time>>

\* play_game: one of the four writes of the newgame handshake; after the
\* last the live position is the one after the opening moves
WriteHandshake(w, k, io) ==
    LET id == EngineOf(w, Handshake[k][1])
        opening == scheduled_games[Round(w) + 1].opening
    IN
    /\ pc[w] = HandshakePcs[k]
    /\ IF io = "Ok"
       THEN /\ uci_write_line(w, id, <<Handshake[k][2]>>)
            /\ pc' = [pc EXCEPT ![w] = IF k < Len(Handshake) THEN HandshakePcs[k + 1]
                                       ELSE "readyok_white"]
            /\ position' = [position EXCEPT ![w] = [plies |-> opening.moves, result |-> None]]
            /\ moves' = [moves EXCEPT ![w] = opening.moves]
            /\ UNCHANGED <<is_shutting_down, game, io_error>>
       ELSE /\ FatalError(w, "newgame", io)
            /\ UNCHANGED <<stdin, position>>
    /\ UNCHANGED <<outsideWire, stdout>>

\* `while white.uci_read_line()?.trim() != "readyok" {}`, and the same for
\* black: one line read
ReadReadyOk(w, color, line, io) ==
    LET id == EngineOf(w, color) IN
    /\ pc[w] = (IF color = White THEN "readyok_white" ELSE "readyok_black")
    /\ IF io = "Ok"
       THEN /\ line # "readyok" => Count(stdout[w][id], line) < MaxOtherLines
            /\ uci_read_line(w, id, <<line>>)
            /\ pc' = [pc EXCEPT ![w] = IF line # "readyok" THEN @
                                       ELSE IF color = White THEN "readyok_black"
                                       ELSE "loop"]
            /\ UNCHANGED <<is_shutting_down, game, io_error, moves>>
       ELSE /\ FatalError(w, "newgame", io)
            /\ UNCHANGED stdout
    /\ UNCHANGED <<outsideWire, stdin, position>>

\* the head of the game loop: the length check and pgn_game_result
LoopHead(w) ==
    /\ pc[w] = "loop"
    /\ IF exceeds_max_length(moves[w])
       THEN EndGame(w, moves[w], "*", "Game terminated after reaching "
                                       \o ToString(moves[w] \div 2) \o " moves.")
       ELSE IF position[w].result # None
       THEN EndGame(w, moves[w], unwrap(position[w].result), "")
       ELSE pc' = [pc EXCEPT ![w] = "position"] /\ UNCHANGED <<game, moves>>
    /\ UNCHANGED <<outsideWire, stdin, stdout, position, is_shutting_down, io_error>>

\* play_move returned Err: the engine is restarted and the game forfeited
\* when it is a crash, the game fails otherwise
PlayMoveErr(w, io) ==
    IF IsCrash(io)
    THEN /\ EndGame(w, moves[w], forfeit_win_str(Not(Mover(w))),
                    Mover(w) \o " disconnected or crashed")
         /\ io_error' = [io_error EXCEPT
                ![w] = [phase |-> "bestmove", crash |-> TRUE, restarted |-> TRUE]]
         /\ UNCHANGED is_shutting_down
    ELSE FatalError(w, "bestmove", io)

\* play_move: `engine_to_move.uci_write_line(position_string)?`
WritePosition(w, io) ==
    /\ pc[w] = "position"
    /\ IF io = "Ok"
       THEN /\ uci_write_line(w, MoverEngine(w), <<"position", moves[w]>>)
            /\ pc' = [pc EXCEPT ![w] = "go"]
            /\ UNCHANGED <<is_shutting_down, game, io_error, moves>>
       ELSE PlayMoveErr(w, io) /\ UNCHANGED stdin
    /\ UNCHANGED <<outsideWire, stdout, position>>

\* play_move: `engine_to_move.uci_write_line(go_string)?`
WriteGo(w, io) ==
    /\ pc[w] = "go"
    /\ IF io = "Ok"
       THEN /\ uci_write_line(w, MoverEngine(w), <<"go">>)
            /\ pc' = [pc EXCEPT ![w] = "bestmove"]
            /\ UNCHANGED <<is_shutting_down, game, io_error, moves>>
       ELSE PlayMoveErr(w, io) /\ UNCHANGED stdin
    /\ UNCHANGED <<outsideWire, stdout, position>>

\* play_move: a line read that does not start with `bestmove`
ReadOtherLine(w, line) ==
    /\ pc[w] = "bestmove"
    /\ Count(stdout[w][MoverEngine(w)], line) < MaxOtherLines
    /\ uci_read_line(w, MoverEngine(w), <<line>>)
    /\ UNCHANGED <<outsideWire, stdin, position, pc, is_shutting_down, game, io_error, moves>>

\* play_move: the read fails
ReadFails(w, io) ==
    /\ pc[w] = "bestmove"
    /\ io # "Ok"
    /\ PlayMoveErr(w, io)
    /\ UNCHANGED <<outsideWire, stdin, stdout, position>>

\* play_move reads the bestmove line and returns; the move ends the game
\* (a forfeit, here for a move that is not legal) or is made and the loop
\* goes round
ReadBestMove(w, move, result) ==
    /\ pc[w] = "bestmove"
    /\ uci_read_line(w, MoverEngine(w), <<"bestmove">>)
    /\ IF move_from_lan(move) /\ legal_moves_contains(move)
       THEN /\ position' = [position EXCEPT
                               ![w] = [plies |-> @.plies + 1, result |-> result]]
            /\ moves' = [moves EXCEPT ![w] = @ + 1]
            /\ pc' = [pc EXCEPT ![w] = "loop"]
            /\ UNCHANGED game
       ELSE /\ EndGame(w, moves[w], forfeit_win_str(Not(Mover(w))),
                       Mover(w) \o " made an illegal move")
            /\ UNCHANGED position
    /\ UNCHANGED <<outsideWire, stdin, is_shutting_down, io_error>>

WireNext ==
    \/ \E w \in Workers, k \in 1..Len(Handshake), io \in IoResults : WriteHandshake(w, k, io)
    \/ \E w \in Workers, color \in {White, Black}, line \in {"readyok", "info"},
          io \in IoResults : ReadReadyOk(w, color, line, io)
    \/ \E w \in Workers : LoopHead(w)
    \/ \E w \in Workers, io \in IoResults : WritePosition(w, io)
    \/ \E w \in Workers, io \in IoResults : WriteGo(w, io)
    \/ \E w \in Workers : ReadOtherLine(w, "info")
    \/ \E w \in Workers, io \in IoResults : ReadFails(w, io)
    \/ \E w \in Workers, move \in BestMoves :
           \E result \in (IF position[w].plies + 1 >= MaxMoves
                          THEN {Some(r) : r \in GameResults}
                          ELSE {None} \cup {Some(r) : r \in GameResults}) :
               ReadBestMove(w, move, result)

WireSpec == WireInit /\ [][WireNext]_vars

(* ------------------- claims on the lines of a game --------------------- *)
\* the step writes a line of this command to the engine
Writes(w, id, command) ==
    /\ Len(stdin'[w][id]) = Len(stdin[w][id]) + 1
    /\ stdin'[w][id][Len(stdin'[w][id])][1] = command

\* the engine has been sent teinewgame and then isready as its last two
\* lines before any position, and has answered every isready with readyok
HandshakeComplete(w, id) ==
    /\ \E i \in 1..(Len(stdin[w][id]) - 1) :
           /\ stdin[w][id][i][1] = "teinewgame"
           /\ stdin[w][id][i + 1][1] = "isready"
           /\ \A j \in 1..i : stdin[w][id][j][1] \notin {"position", "go"}
    /\ Count(stdout[w][id], "readyok") = Count(stdin[w][id], "isready")

\* the engine of the side to move in the live position
SideToMoveEngine(w) ==
    IF position[w].plies % 2 = 0
    THEN unwrap(scheduled_game[w]).white_engine_id
    ELSE unwrap(scheduled_game[w]).black_engine_id

\* C30: a position or go line is written only when both engines of the game
\* have been sent teinewgame and isready and have answered readyok; a go
\* line is written right after a position line to the same engine, to the
\* engine of the side to move only, and when every go written to either
\* engine has had its bestmove line read.
C30_HandshakeThenPositionGo ==
    [][\A w \in Workers : \A id \in 0..1 :
          /\ Writes(w, id, "position") \/ Writes(w, id, "go") =>
                 /\ HandshakeComplete(w, 0) /\ HandshakeComplete(w, 1)
                 /\ id = SideToMoveEngine(w)
          /\ Writes(w, id, "go") =>
                 /\ stdin[w][id][Len(stdin[w][id])][1] = "position"
                 /\ \A e \in 0..1 :
                        Count(stdin[w][e], "go") = Count(stdout[w][e], "bestmove")]_vars

\* both engines have been asked for a move and have answered, after a
\* handshake in which the engines sent other lines before readyok
C30_Witness ==
    \E w \in Workers :
        /\ \A id \in 0..1 : /\ Count(stdin[w][id], "go") >= 1
                            /\ Count(stdout[w][id], "bestmove") >= 1
                            /\ Count(stdout[w][id], "info") >= 1
        /\ pc[w] = "bestmove"

(* ------------- a game from get_engines to the record it returns --------- *)
\* lines starting with `info` that the engines of a game are let to send
\* while the driver waits for bestmove, over the whole game
MaxInfoLines == 2

\* parser.rs:178
KEYWORDS == {"depth", "seldepth", "nodes", "score", "time", "nps", "pv", "multipv",
             "currmove", "currmovenumber", "hashfull", "tbhits", "cpuload", "string",
             "refutation", "currline"}
\* the keys of parse_info_string whose value is a number kept in the field
\* of that name, and those of them that are unsigned
NumberKeys == {"depth", "seldepth", "time", "nodes", "nps"}
UnsignedKeys == {"depth", "seldepth", "nodes", "nps"}

\* the words that are numerals, with their value
Numerals == [word \in {"2", "3", "15", "-7"} |->
                CASE word = "2" -> 2 [] word = "3" -> 3 [] word = "15" -> 15
                  [] word = "-7" -> 0 - 7]
\* `i64::from_str(word)` and `word.parse()` to an unsigned type: Some of
\* the number, None for Err
i64_from_str(word) == IF word \in DOMAIN Numerals THEN Some(Numerals[word]) ELSE None
unsigned_from_str(word) ==
    IF word \in DOMAIN Numerals /\ Numerals[word] >= 0 THEN Some(Numerals[word]) ELSE None

\* the place of the first keyword at or after place i, past the end when
\* there is none: where the `while words_iter.peek()` loop of "pv" stops
RECURSIVE pv_end(_, _)
pv_end(words, i) ==
    IF i > Len(words) \/ words[i] \in KEYWORDS THEN i ELSE pv_end(words, i + 1)

\* the `while let Some(next_token) = words_iter.next()` loop of
\* parse_info_string from word i on, and what the function returns after it
RECURSIVE parse_info_words(_, _, _)
parse_info_words(words, i, info) ==
    IF i > Len(words)
    THEN IF info.cp_score # None
         THEN <<"Ok", [info EXCEPT !.cp_score = unwrap(@)]>>
         ELSE <<"Err", "MissingField">>
    ELSE LET next_token == words[i]
             value == IF i < Len(words) THEN Some(words[i + 1]) ELSE None
         IN  CASE next_token = "score" ->
                      IF value # Some("cp") THEN <<"Err", "ParseError">>
                      ELSE IF i + 2 > Len(words) THEN <<"Err", "ParseError">>
                      ELSE IF i64_from_str(words[i + 2]) = None THEN <<"Err", "ParseError">>
                      ELSE parse_info_words(words, i + 3,
                               [info EXCEPT !.cp_score = i64_from_str(words[i + 2])])
               [] next_token = "pv" ->
                      IF info.pv # <<>> THEN <<"Err", "ParseError">>
                      ELSE parse_info_words(words, pv_end(words, i + 1),
                               [info EXCEPT !.pv = SubSeq(words, i + 1,
                                                          pv_end(words, i + 1) - 1)])
               [] next_token \in NumberKeys ->
                      LET number == IF value = None THEN None
                                    ELSE IF next_token \in UnsignedKeys
                                    THEN unsigned_from_str(unwrap(value))
                                    ELSE i64_from_str(unwrap(value))
                      IN  IF number = None THEN <<"Err", "ParseError">>
                          ELSE parse_info_words(words, i + 2,
                                   [info EXCEPT ![next_token] = unwrap(number)])
               [] OTHER -> parse_info_words(words, i + 1, info)

\* parser::parse_info_string of the line of these words: <<"Ok", UciInfo>>,
\* <<"Err", kind>>, or <<"panic">> when `assert_eq!(words_iter.next(),
\* Some("info"))` fails
parse_info_string(words) ==
    IF words = <<>> \/ words[1] # "info" THEN <<"panic">>
    ELSE parse_info_words(words, 2,
             [depth |-> 0, seldepth |-> 0, time |-> 0, nodes |-> 0, nps |-> 0,
              cp_score |-> None, pv |-> <<>>])

\* the first words of a line for which `input.starts_with(..)` holds
InfoWords == {"info", "information"}
starts_with_info(words) == words # <<>> /\ words[1] \in InfoWords

\* the info lines an engine may send
InfoLines ==
    {<<"info", "depth", "2", "score", "cp", "15", "pv", "a1", "b1">>,
     <<"info", "score", "cp", "-7", "depth", "3">>,
     <<"info", "depth", "3", "nodes", "15">>,
     <<"info", "score", "mate", "2">>,
     <<"info", "depth", "-7", "score", "cp", "15">>,
     <<"information">>}

\* a play_move that keeps whatever the last info line gave, None for a line
\* that does not parse
last_info_replaced(last, parsed) == IF parsed[1] = "Ok" THEN Some(parsed[2]) ELSE None
\* `Ok(uci_info) => last_uci_info = Some(uci_info)`, `Err(err) => warn!(..)`
last_info_retained(last, parsed) == IF parsed[1] = "Ok" THEN Some(parsed[2]) ELSE last

\* the move that is legal in a position, by the half-moves made in it, and
\* (below) position.generate_moves
legal_move(plies) == "m" \o ToString(plies)
\* a driver that takes every decoded move for a legal one
any_decoded_move(p) == {legal_move(plies) : plies \in 0..(p.plies + 1)}
generate_moves(p) == {legal_move(p.plies)}

\* the comment of a move, `score_string`: None for the empty string, else
\* the score from white's side in centipawns, the depth and the time taken
score_string(info, side_to_move_after, time_taken) ==
    IF info = None THEN None
    ELSE Some([score |-> IF side_to_move_after = White THEN 0 - unwrap(info).cp_score
                         ELSE unwrap(info).cp_score,
               depth |-> unwrap(info).depth,
               seconds |-> time_taken])

\* PtnMove
PtnMove(mv, comment) == [mv |-> mv, comment |-> comment]

\* a get_engines that hands out the one engine for both colours
get_engines_shared(white_id, black_id) == Some(<<white_id, black_id>>)
\* Worker::get_engines
get_engines(white_id, black_id) ==
    IF white_id = black_id THEN None ELSE Some(<<white_id, black_id>>)

\* the schedules a game is taken from: head to head, and book tests of one
\* and of two engines
MoveTypes == {[kind |-> "RoundRobin", n |-> 2], [kind |-> "BookTest", n |-> 1],
              [kind |-> "BookTest", n |-> 2]}

\* worker 1 has claimed a round and passed its flag check; its engines have
\* been through their startup
MoveInit ==
    /\ tournament_type \in MoveTypes
    /\ sprt = FALSE
    /\ num_games = 2
    /\ desired_uci_options = DefaultHalfKomi
    /\ openings \in {<<Opening(0, n)>> : n \in 0..1}
    /\ openings_start_index = 0
    /\ game_time = [id \in 0..(num_engines(tournament_type) - 1) |-> 1]
    /\ increment = [id \in 0..(num_engines(tournament_type) - 1) |-> 0]
    /\ scheduled_games = collect
    /\ \E round_number \in 0..(num_games - 1) :
           /\ next_game_id = round_number + 1
           /\ scheduled_game = [w \in Workers |->
                                   IF w = 1 THEN Some(schedule[round_number]) ELSE None]
           /\ dispatched = [r \in 0..(num_games - 1) |-> IF r <= round_number THEN 1 ELSE 0]
    /\ finished_games = [r \in 0..(num_games - 1) |-> None]
    /\ poisoned = FALSE
    /\ pending_games = <<>>
    /\ next_game_number = 0
    /\ pgn_out = <<>>
    /\ is_shutting_down = FALSE
    /\ llr = 0
    /\ pc = [w \in Workers |-> IF w = 1 THEN "get_engines" ELSE "done"]
    /\ moves = [w \in Workers |-> 0]
    /\ game = [w \in Workers |-> None]
    /\ io_error = [w \in Workers |-> NoError]
    /\ engines = [w \in Workers |->
                     [id \in 0..(num_engines(tournament_type) - 1) |-> desired_uci_options]]
    /\ main_pc = "join"
    /\ white_time = [w \in Workers |-> 0]
    /\ black_time = [w \in Workers |-> 0]
    /\ position = [w \in Workers |-> StartPosition]
    /\ options = [w \in Workers |->
                     [id \in 0..(num_engines(tournament_type) - 1) |->
                         Some(with_half_komi(<<>>))]]
    /\ stdin = [w \in Workers |-> [id \in 0..(num_engines(tournament_type) - 1) |->
                                      <<(<<"tei">>), (<<"isready">>)>>]]
    /\ stdout = [w \in Workers |-> [id \in 0..(num_engines(tournament_type) - 1) |->
                                       <<(<<"teiok">>), (<<"readyok">>)>>]]
    /\ option_index = 0
    /\ held = [w \in Workers |-> {}]
    /\ NotPlaying
    /\ tc_str = <<"1">>
    /\ tc = Some(<<"Ok", 1000, 0>>)

\* what a game leaves alone
outsideMove == <<processVars, cliVars, lockVars, configVars, writerVars, scheduled_games,
                 scheduled_game, next_game_id, finished_games, poisoned, llr, main_pc,
                 dispatched, options, option_index, engines>>

\* the opening of the game of worker w
OpeningOf(w) == scheduled_games[Round(w) + 1].opening

\* play_game up to the handshake: the position from the opening's root,
\* `worker.get_engines(..).unwrap()`, the opening moves collected and made
GetEngines(w) ==
    LET g == unwrap(scheduled_game[w]) IN
    /\ pc[w] = "get_engines"
    /\ IF get_engines(g.white_engine_id, g.black_engine_id) = None
       THEN /\ pc' = [pc EXCEPT ![w] = "panicked"]
            /\ UNCHANGED <<ptn_moves, moves, position>>
       ELSE /\ pc' = [pc EXCEPT ![w] = HandshakePcs[1]]
            /\ ptn_moves' = [ptn_moves EXCEPT
                   ![w] = [i \in 1..OpeningOf(w).moves |-> PtnMove(legal_move(i - 1), None)]]
            /\ moves' = [moves EXCEPT ![w] = OpeningOf(w).moves]
            /\ position' = [position EXCEPT
                               ![w] = [plies |-> OpeningOf(w).moves, result |-> None]]
    /\ UNCHANGED <<outsideMove, stdin, stdout, last_uci_info, white_time, black_time,
                   is_shutting_down, game, io_error>>

\* the last readyok is read and the clocks are started from the engines'
\* base times
StartClocks(w, io) ==
    /\ pc[w] = "readyok_black"
    /\ IF io = "Ok"
       THEN /\ uci_read_line(w, EngineOf(w, Black), <<"readyok">>)
            /\ white_time' = [white_time EXCEPT ![w] = game_time[EngineOf(w, White)]]
            /\ black_time' = [black_time EXCEPT ![w] = game_time[EngineOf(w, Black)]]
            /\ pc' = [pc EXCEPT ![w] = "loop"]
            /\ UNCHANGED <<is_shutting_down, game, io_error, moves>>
       ELSE /\ FatalError(w, "newgame", io)
            /\ UNCHANGED <<stdout, white_time, black_time>>
    /\ UNCHANGED <<outsideMove, moveVars, stdin, position>>

\* the go line of the clocks
go_string(w) == <<"go", white_time[w], black_time[w],
                  increment[EngineOf(w, White)], increment[EngineOf(w, Black)]>>

\* play_move: the go line is written and last_uci_info starts as None
WriteGoString(w, io) ==
    /\ pc[w] = "go"
    /\ IF io = "Ok"
       THEN /\ uci_write_line(w, MoverEngine(w), go_string(w))
            /\ last_uci_info' = [last_uci_info EXCEPT ![w] = None]
            /\ pc' = [pc EXCEPT ![w] = "bestmove"]
            /\ UNCHANGED <<is_shutting_down, game, io_error, moves>>
       ELSE PlayMoveErr(w, io) /\ UNCHANGED <<stdin, last_uci_info>>
    /\ UNCHANGED <<outsideMove, stdout, position, ptn_moves, white_time, black_time>>

\* the lines starting with info read in the game of worker w
InfoLinesRead(w) ==
    Cardinality({line \in UNION {{id} \X (1..Len(stdout[w][id])) : id \in DOMAIN stdout[w]} :
                    starts_with_info(stdout[w][line[1]][line[2]])})

\* play_move: a line starting with info is read
ReadInfoLine(w, input) ==
    /\ pc[w] = "bestmove"
    /\ InfoLinesRead(w) < MaxInfoLines
    /\ starts_with_info(input)
    /\ uci_read_line(w, MoverEngine(w), input)
    /\ IF parse_info_string(input)[1] = "panic"
       THEN pc' = [pc EXCEPT ![w] = "panicked"] /\ UNCHANGED last_uci_info
       ELSE /\ last_uci_info' = [last_uci_info EXCEPT
                   ![w] = last_info_retained(@, parse_info_string(input))]
            /\ UNCHANGED pc
    /\ UNCHANGED <<outsideMove, stdin, position, ptn_moves, white_time, black_time,
                   is_shutting_down, game, io_error, moves>>

\* play_move reads a bestmove line and returns its second word with
\* last_uci_info; play_game decodes the move, looks it up among the legal
\* moves, makes it, appends it with its comment and takes the time off the
\* mover's clock
ReadBestMoveLine(w, move, time_taken, result) ==
    LET remaining == IF Mover(w) = White THEN white_time[w] ELSE black_time[w]
        after == clock_after(remaining, time_taken, increment[MoverEngine(w)])
        played == Append(ptn_moves[w],
                         PtnMove(move, score_string(last_uci_info[w], Not(Mover(w)),
                                                    time_taken)))
    IN
    /\ pc[w] = "bestmove"
    /\ uci_read_line(w, MoverEngine(w), <<"bestmove", move>>)
    /\ IF ~move_from_lan(move)
       THEN /\ EndGame(w, moves[w], forfeit_win_str(Not(Mover(w))),
                       Mover(w) \o " sent a malformed move")
            /\ UNCHANGED <<position, ptn_moves, white_time, black_time>>
       ELSE IF move \notin generate_moves(position[w])
       THEN /\ EndGame(w, moves[w], forfeit_win_str(Not(Mover(w))),
                       Mover(w) \o " made an illegal move")
            /\ UNCHANGED <<position, ptn_moves, white_time, black_time>>
       ELSE /\ position' = [position EXCEPT
                               ![w] = [plies |-> @.plies + 1, result |-> result]]
            /\ ptn_moves' = [ptn_moves EXCEPT ![w] = played]
            /\ IF in_time(time_taken, remaining)
               THEN /\ after <= MaxClock
                    /\ moves' = [moves EXCEPT ![w] = @ + 1]
                    /\ pc' = [pc EXCEPT ![w] = "loop"]
                    /\ IF Mover(w) = White
                       THEN /\ white_time' = [white_time EXCEPT ![w] = after]
                            /\ UNCHANGED black_time
                       ELSE /\ black_time' = [black_time EXCEPT ![w] = after]
                            /\ UNCHANGED white_time
                    /\ UNCHANGED game
               ELSE /\ EndGame(w, moves[w] + 1, forfeit_win_str(Not(Mover(w))),
                               Not(Mover(w)) \o " wins on time")
                    /\ UNCHANGED <<white_time, black_time>>
    /\ UNCHANGED <<outsideMove, stdin, last_uci_info, is_shutting_down, io_error>>

\* what a bestmove line may carry in the position of worker w: a word that
\* is no move, the legal move, and a move that is legal one move later
BestMoveWords(w) == {"malformed", legal_move(position[w].plies),
                     legal_move(position[w].plies + 1)}

MoveNext ==
    \/ \E w \in Workers : GetEngines(w)
    \/ \E w \in Workers, k \in 1..Len(Handshake), io \in IoResults : WriteHandshake(w, k, io)
    \/ \E w \in Workers, io \in IoResults : ReadReadyOk(w, White, "readyok", io)
    \/ \E w \in Workers, io \in IoResults : StartClocks(w, io)
    \/ \E w \in Workers : LoopHead(w)
    \/ \E w \in Workers, io \in IoResults : WritePosition(w, io)
    \/ \E w \in Workers, io \in IoResults : WriteGoString(w, io)
    \/ \E w \in Workers, input \in InfoLines : ReadInfoLine(w, input)
    \/ \E w \in Workers, io \in IoResults : ReadFails(w, io)
    \/ \E w \in Workers, time_taken \in {0, MaxClock + 1} :
           \E move \in BestMoveWords(w),
              result \in (IF Len(ptn_moves[w]) + 1 >= MaxMoves
                          THEN {Some(r) : r \in GameResults}
                          ELSE {None} \cup {Some(r) : r \in GameResults}) :
               ReadBestMoveLine(w, move, time_taken, result)

MoveSpec == MoveInit /\ [][MoveNext]_vars

(* --------------------- claims on the moves of a game ------------------- *)
\* the step reads a line from the engine to move
Reads(w) == Len(stdout'[w][MoverEngine(w)]) = Len(stdout[w][MoverEngine(w)]) + 1
LineRead(w) == stdout'[w][MoverEngine(w)][Len(stdout'[w][MoverEngine(w)])]

\* the info lines of the move being waited for: those read from the engine
\* to move after its last line that is no info line
InfoLinesOfMove(w) ==
    LET out == stdout[w][MoverEngine(w)]
        others == {i \in 1..Len(out) : ~starts_with_info(out[i])}
        start == IF others = {} THEN 0 ELSE CHOOSE i \in others : \A j \in others : j <= i
    IN  SubSeq(out, start + 1, Len(out))

\* the UciInfo of the last of the lines that parses, None when none does
LastParsed(lines) ==
    LET parsed == {i \in 1..Len(lines) : parse_info_string(lines[i])[1] = "Ok"}
    IN  IF parsed = {} THEN None
        ELSE Some(parse_info_string(lines[CHOOSE i \in parsed : \A j \in parsed : j <= i])[2])

\* the step appends a move to the moves of the game of worker w
AppendsMove(w) == pc[w] = "bestmove" /\ Len(ptn_moves'[w]) = Len(ptn_moves[w]) + 1

\* C31: while the driver waits for bestmove, an info line (first word
\* `info`) that fails to parse leaves the retained value, the place in the
\* game and the game's record as they were, and one that parses becomes the
\* retained value; the go line starts the move with nothing retained; and
\* the comment of an appended move is made from the last info line of that
\* very move that parsed, so it is empty exactly when none did.
C31_LastInfoRetained ==
    [][\A w \in Workers :
          /\ (pc[w] = "bestmove" /\ Reads(w) /\ LineRead(w)[1] = "info") =>
                 IF parse_info_string(LineRead(w))[1] = "Ok"
                 THEN last_uci_info'[w] = Some(parse_info_string(LineRead(w))[2])
                 ELSE /\ last_uci_info'[w] = last_uci_info[w]
                      /\ pc'[w] = "bestmove"
                      /\ game'[w] = game[w]
                      /\ ptn_moves'[w] = ptn_moves[w]
          /\ (pc[w] = "go" /\ pc'[w] = "bestmove") => last_uci_info'[w] = None
          /\ AppendsMove(w) =>
                 LET comment == ptn_moves'[w][Len(ptn_moves'[w])].comment
                     last == LastParsed(InfoLinesOfMove(w))
                 IN  /\ comment = None <=> last = None
                     /\ comment # None =>
                            /\ unwrap(comment).depth = unwrap(last).depth
                            /\ unwrap(comment).score \in {unwrap(last).cp_score,
                                                          0 - unwrap(last).cp_score}]_vars

\* one engine has made two moves: before the first it sent an info line
\* that parsed and then one that did not, and the move has a comment;
\* before the second it sent none, and the move has no comment
C31_Witness ==
    \E w \in Workers : \E i \in 1..Len(ptn_moves[w]) :
        /\ i + 2 <= Len(ptn_moves[w])
        /\ ptn_moves[w][i].comment # None
        /\ ptn_moves[w][i + 2].comment = None
        /\ \E id \in DOMAIN stdout[w] : \E k \in 1..Len(stdout[w][id]) :
               /\ k + 2 <= Len(stdout[w][id])
               /\ parse_info_string(stdout[w][id][k])[1] = "Ok"
               /\ stdout[w][id][k + 1][1] = "info"
               /\ parse_info_string(stdout[w][id][k + 1])[1] = "Err"
               /\ stdout[w][id][k + 2][1] = "bestmove"

\* the game of worker w pairs an engine with itself
SelfPaired(w) ==
    /\ scheduled_game[w] # None
    /\ unwrap(scheduled_game[w]).white_engine_id = unwrap(scheduled_game[w]).black_engine_id

\* C32: in a book test a worker that starts a game of an engine against
\* itself gets the engine for both colours and goes on to the newgame
\* handshake with the opening moves made; it does not panic.
C32_SelfPairingPlayed ==
    [][\A w \in Workers :
          (tournament_type.kind = "BookTest" /\ SelfPaired(w) /\ pc[w] = "get_engines") =>
              /\ pc'[w] = HandshakePcs[1]
              /\ Len(ptn_moves'[w]) = OpeningOf(w).moves]_vars

(* ------------- the engine processes at the end of a worker ------------- *)
\* Child::try_wait of a process: Some of the exit status when the process
\* has exited, None while it runs
try_wait_running(c) == None
try_wait(c) == IF c.exited THEN Some("exited") ELSE None

\* the process exits, on its own or killed
exits(c) == [c EXCEPT !.exited = TRUE]

\* workers in their loop with every engine process running
ShutdownInit ==
    /\ tournament_type = [kind |-> "RoundRobin", n |-> 2]
    /\ sprt = FALSE
    /\ num_games = 1
    /\ desired_uci_options = DefaultHalfKomi
    /\ openings = <<Opening(0, 0)>>
    /\ openings_start_index = 0
    /\ game_time = [id \in 0..(num_engines(tournament_type) - 1) |-> 1]
    /\ increment = [id \in 0..(num_engines(tournament_type) - 1) |-> 0]
    /\ scheduled_games = collect
    /\ PoolInit

\* what the shutdown of the engines leaves alone
outsideShutdown == <<moveVars, cliVars, lockVars, configVars, gameVars, writerVars,
                     next_game_id, finished_games, poisoned, is_shutting_down, llr,
                     scheduled_game, moves, game, io_error, engines, main_pc, dispatched,
                     options, stdout, option_index>>

\* the engine Engine::shutdown is at, when the worker is in it
ShuttingDown(w) == engine_index[w]

\* an engine process exits: it crashed, or it was sent quit and obeyed
ChildExits(w, id) ==
    /\ ~child[w][id].exited
    /\ child' = [child EXCEPT ![w][id] = exits(@)]
    /\ UNCHANGED <<outsideShutdown, pc, stdin, engine_index, exit_status>>

\* the worker's loop breaks and `for engine in worker.engines.iter_mut()`
\* starts
BreakLoop(w) ==
    /\ pc[w] = "loop"
    /\ pc' = [pc EXCEPT ![w] = "shutdown"]
    /\ UNCHANGED <<outsideShutdown, processVars, stdin>>

\* Engine::shutdown returns to `engine.shutdown().unwrap()` and the loop
\* goes to the next engine
Return(w, result) ==
    /\ exit_status' = [exit_status EXCEPT ![w][ShuttingDown(w)] = Some(result)]
    /\ IF result = "Err" THEN pc' = [pc EXCEPT ![w] = "panicked"] /\ UNCHANGED engine_index
       ELSE /\ engine_index' = [engine_index EXCEPT ![w] = @ + 1]
            /\ pc' = [pc EXCEPT ![w] = IF engine_index'[w] \in DOMAIN child[w]
                                       THEN "shutdown" ELSE "done"]

\* `if let Some(exit_status) = self.child.try_wait()? { return Ok(..) }`
TryWait(w, io) ==
    /\ pc[w] = "shutdown"
    /\ IF io # "Ok" THEN Return(w, "Err") /\ UNCHANGED child
       ELSE IF try_wait(child[w][ShuttingDown(w)]) # None
       THEN /\ Return(w, "Ok")
            /\ child' = [child EXCEPT ![w][ShuttingDown(w)].status =
                                          try_wait(child[w][ShuttingDown(w)])]
       ELSE pc' = [pc EXCEPT ![w] = "quit"] /\ UNCHANGED <<child, engine_index, exit_status>>
    /\ UNCHANGED <<outsideShutdown, stdin>>

\* `self.uci_write_line("quit")?`
WriteQuit(w, io) ==
    /\ pc[w] = "quit"
    /\ IF io # "Ok" THEN Return(w, "Err") /\ UNCHANGED stdin
       ELSE /\ uci_write_line(w, ShuttingDown(w), <<"quit">>)
            /\ pc' = [pc EXCEPT ![w] = "grace"]
            /\ UNCHANGED <<engine_index, exit_status>>
    /\ UNCHANGED <<outsideShutdown, child>>

\* after the sleep, `match self.child.try_wait()?`
TryWaitAgain(w, io) ==
    /\ pc[w] = "grace"
    /\ IF io # "Ok" THEN Return(w, "Err") /\ UNCHANGED child
       ELSE IF try_wait(child[w][ShuttingDown(w)]) # None
       THEN /\ Return(w, "Ok")
            /\ child' = [child EXCEPT ![w][ShuttingDown(w)].status =
                                          try_wait(child[w][ShuttingDown(w)])]
       ELSE pc' = [pc EXCEPT ![w] = "kill"] /\ UNCHANGED <<child, engine_index, exit_status>>
    /\ UNCHANGED <<outsideShutdown, stdin>>

\* `self.child.kill()?`
Kill(w, io) ==
    /\ pc[w] = "kill"
    /\ IF io # "Ok" THEN Return(w, "Err") /\ UNCHANGED child
       ELSE /\ child' = [child EXCEPT ![w][ShuttingDown(w)] = [exits(@) EXCEPT !.killed = TRUE]]
            /\ pc' = [pc EXCEPT ![w] = "wait"]
            /\ UNCHANGED <<engine_index, exit_status>>
    /\ UNCHANGED <<outsideShutdown, stdin>>

\* after the sleep, `self.child.wait()?`, which returns when the process
\* has exited
Wait(w, io) ==
    /\ pc[w] = "wait"
    /\ IF io # "Ok" THEN Return(w, "Err") /\ UNCHANGED child
       ELSE /\ child[w][ShuttingDown(w)].exited
            /\ Return(w, "Ok")
            /\ child' = [child EXCEPT ![w][ShuttingDown(w)].status = Some("exited")]
    /\ UNCHANGED <<outsideShutdown, stdin>>

ShutdownNext ==
    \/ \E w \in Workers : \E id \in DOMAIN child[w] : ChildExits(w, id)
    \/ \E w \in Workers : BreakLoop(w)
    \/ \E w \in Workers, io \in IoResults : TryWait(w, io)
    \/ \E w \in Workers, io \in IoResults : WriteQuit(w, io)
    \/ \E w \in Workers, io \in IoResults : TryWaitAgain(w, io)
    \/ \E w \in Workers, io \in IoResults : Kill(w, io)
    \/ \E w \in Workers, io \in IoResults : Wait(w, io)

ShutdownSpec == ShutdownInit /\ [][ShutdownNext]_vars

\* the step of worker w is a return of Engine::shutdown with Ok for the
\* engine
ReturnsOk(w, id) == exit_status[w][id] = None /\ exit_status'[w][id] = Some("Ok")

\* the step writes quit to the engine
WritesQuit(w, id) == Len(stdin'[w][id]) = Len(stdin[w][id]) + 1

\* C33: a shutdown that finds the process exited at its first look returns
\* Ok without a line written; quit is written at most once to an engine,
\* and never to a process whose exit status has been collected; a process
\* is killed only after quit was written to it and before its exit status
\* was collected; and whenever shutdown returns Ok the process has exited.
C33_Shutdown ==
    /\ [](\A w \in Workers : \A id \in DOMAIN child[w] :
             /\ Count(stdin[w][id], "quit") <= 1
             /\ exit_status[w][id] = Some("Ok") =>
                    child[w][id].exited /\ child[w][id].status # None)
    /\ [][\A w \in Workers : \A id \in DOMAIN child[w] :
             /\ (pc[w] = "shutdown" /\ id = ShuttingDown(w) /\ child[w][id].exited
                   /\ pc'[w] # "shutdown" /\ exit_status'[w][id] # Some("Err")) =>
                    /\ ReturnsOk(w, id)
                    /\ stdin'[w][id] = stdin[w][id]
                    /\ ~child'[w][id].killed
             /\ WritesQuit(w, id) =>
                    /\ child[w][id].status = None
                    /\ stdin'[w][id][Len(stdin'[w][id])] = <<"quit">>
                    /\ ~ReturnsOk(w, id)
             /\ (~child[w][id].killed /\ child'[w][id].killed) =>
                    /\ Count(stdin[w][id], "quit") = 1
                    /\ child[w][id].status = None
             /\ ReturnsOk(w, id) => child'[w][id].exited]_vars

\* a worker has shut down one engine that had exited before the first look
\* (nothing written) and one that ignored quit and was killed
C33_Witness ==
    \E w \in Workers : \E id, other \in DOMAIN child[w] :
        /\ exit_status[w][id] = Some("Ok") /\ stdin[w][id] = <<>> /\ ~child[w][id].killed
        /\ exit_status[w][other] = Some("Ok") /\ child[w][other].killed
        /\ stdin[w][other] = <<(<<"quit">>)>>

(* --------------------- the pool under fair scheduling ------------------ *)
\* a step of worker thread w
WorkerStep(w) ==
    \/ NextUnplayedGame(w)
    \/ CheckShuttingDown(w)
    \/ \E io \in IoResults : NewGame(w, io)
    \/ \E result \in GameResults : GameResult(w, result)
    \/ \E reply \in Replies, timely \in BOOLEAN : BestMove(w, reply, timely)
    \/ \E kind \in IoResults, restart_ok \in BOOLEAN : EngineCrash(w, kind, restart_ok)
    \/ EngineIoError(w)
    \/ StoreGame(w)
    \/ SubmitGame(w)
    \/ PrintScore(w)

\* the pool with every thread that can take a step taking one in the end
FairSpec ==
    /\ Init
    /\ [][Next]_vars
    /\ \A w \in Workers : WF_vars(WorkerStep(w))
    /\ WF_vars(JoinAndPrintScore)

\* every worker thread has returned from its closure
AllExited == \A w \in Workers : pc[w] = "done"
\* every round was handed out once and has its record
AllPlayedOnce ==
    \A r \in 0..(num_games - 1) : dispatched[r] = 1 /\ finished_games[r] # None

\* C34: the schedule has num_games entries, entry r of round r, and no
\* round is handed out twice; when the shutdown flag is never set, in the
\* end every worker thread has exited, every round has been handed out
\* exactly once and finished_games has no empty slot.
C34_PoolTerminates ==
    /\ [](/\ Len(scheduled_games) = num_games
          /\ \A r \in 0..(num_games - 1) :
                 scheduled_games[r + 1].round_number = r /\ dispatched[r] <= 1)
    /\ ([]~is_shutting_down) => <>[](AllExited /\ AllPlayedOnce)

\* the same of the runs in which no thread panics
C34_TerminatesUnlessPanic ==
    ([]~is_shutting_down /\ []~poisoned) => <>[](AllExited /\ AllPlayedOnce)

\* C35: when every worker thread has exited the PTN writer holds no game
\* back: pending_games is empty and every round stored in finished_games is
\* in the output.
C35_NothingPendingAtExit ==
    (\A w \in Workers : pc[w] \in {"done", "panicked"}) =>
        /\ pending_games = <<>>
        /\ \A r \in Rounds : finished_games[r] # None => r \in Written

\* the same when no claimed round was dropped at the flag check and no
\* thread panicked
C35_NothingPendingUnlessDropped ==
    (/\ \A w \in Workers : pc[w] = "done"
     /\ \A r \in Rounds : dispatched[r] > 0 => finished_games[r] # None) =>
        /\ pending_games = <<>>
        /\ \A r \in Rounds : finished_games[r] # None => r \in Written

\* C36: in an SPRT tournament of any number of games, odd ones included,
\* sprt_penta_stats returns a tally in every state of finished_games, the
\* tally leaves out a last game that has no partner, and no thread panics
\* in print_score.
C36_PentaStatsNeverPanics ==
    tournament_type.kind = "Sprt" =>
        /\ sprt_penta_stats # None
        /\ PairsCounted(penta_after(num_chunks)) = Cardinality(CompletePairs)
        /\ ~poisoned
        /\ \A w \in Workers : pc[w] # "panicked"

\* the same of the SPRT tournaments with an even number of games
C36_EvenNeverPanics ==
    (tournament_type.kind = "Sprt" /\ num_games % 2 = 0) =>
        /\ sprt_penta_stats # None
        /\ PairsCounted(penta_after(num_chunks)) = Cardinality(CompletePairs)
        /\ ~poisoned
        /\ \A w \in Workers : pc[w] # "panicked"

\* C37: the shutdown flag is monotone: no step of the pool, be it the flag
\* swap after a fatal error, the store in print_score or the interrupt,
\* takes it from set to clear.
C37_FlagMonotone == [][is_shutting_down => is_shutting_down']_vars

\* the flag was set by a fatal error, and the worker that stored the
\* placeholder has since gone through print_score of an SPRT run whose LLR
\* is inside the bounds
C37_Witness ==
    /\ is_shutting_down
    /\ sprt /\ ~sprt_stops
    /\ \E r \in Rounds : finished_games[r] = Some(Placeholder)
    /\ \A w \in Workers : pc[w] \in {"loop", "done"}

(* ----------------------- claims on the clocks -------------------------- *)
\* the clock of the side that is not to move, before and after the step
WaiterClock(w) == IF Mover(w) = White THEN black_time[w] ELSE white_time[w]
WaiterClockAfter(w) == IF Mover(w) = White THEN black_time'[w] ELSE white_time'[w]

\* C38: the clocks start from the base times of the two engines; a move
\* within the time, an elapsed time equal to the remaining clock included,
\* is no time forfeit and leaves the mover's clock at previous - elapsed +
\* the mover's own increment and the opponent's clock as it was; every
\* other step of a game under way leaves both clocks alone; no clock is
\* ever negative, and neither is a wtime or btime of a go line.
C38_OnlyMoversClock ==
    /\ [](\A w \in Workers :
             /\ white_time[w] >= 0 /\ black_time[w] >= 0
             /\ AsksForMove(w) => go_string(w)[2] >= 0 /\ go_string(w)[3] >= 0)
    /\ [][\A w \in Workers :
             /\ (pc[w] = "newgame" /\ pc'[w] = "play") =>
                    /\ white_time'[w] = game_time[unwrap(scheduled_game[w]).white_engine_id]
                    /\ black_time'[w] = game_time[unwrap(scheduled_game[w]).black_engine_id]
             /\ \A time_taken \in Elapsed, result \in ResultsAfterMove :
                    LoopBestMove(w, "legal", time_taken, result) =>
                        IF time_taken <= MoverClock(w)
                        THEN /\ ~ForfeitedOnTime(w)
                             /\ MoverClockAfter(w) =
                                    MoverClock(w) - time_taken + increment[MoverEngine(w)]
                             /\ WaiterClockAfter(w) = WaiterClock(w)
                        ELSE ForfeitedOnTime(w)
             /\ (pc[w] = "play" /\ moves'[w] # moves[w] + 1) =>
                    white_time'[w] = white_time[w] /\ black_time'[w] = black_time[w]]_vars

\* White has used its whole clock on the first move and plays on with its
\* increment; Black's clock is at its base time, which is another one
C38_Witness ==
    \E w \in Workers :
        LET white == unwrap(scheduled_game[w]).white_engine_id
            black == unwrap(scheduled_game[w]).black_engine_id
        IN  /\ pc[w] = "play"
            /\ openings[1].moves = 0
            /\ position[w].plies = 1
            /\ increment[white] = 1 /\ increment[black] = 0
            /\ game_time[white] = MaxClock /\ game_time[black] = 1
            /\ white_time[w] = 1
            /\ black_time[w] = 1

(* ------------------- claims on the recorded moves ---------------------- *)
\* the step reads a bestmove line in the game of worker w
ReadsBestMove(w) == pc[w] = "bestmove" /\ Reads(w) /\ LineRead(w)[1] = "bestmove"

\* C39: the moves of a game, replayed from the root position of its
\* opening, are each the legal move of the position reached; a bestmove that
\* does not decode or is not legal in the live position ends the game with
\* the move list as it was; a legal one is made and appended, also when it
\* overran the clock, and the record of the time forfeit holds it.
C39_RecordedMovesLegal ==
    /\ [](\A w \in Workers : \A i \in 1..Len(ptn_moves[w]) :
             ptn_moves[w][i].mv = legal_move(i - 1))
    /\ [][\A w \in Workers :
             ReadsBestMove(w) =>
                 IF LineRead(w)[2] = legal_move(position[w].plies)
                 THEN /\ ptn_moves'[w] # ptn_moves[w]
                      /\ SubSeq(ptn_moves'[w], 1, Len(ptn_moves[w])) = ptn_moves[w]
                      /\ Len(ptn_moves'[w]) = Len(ptn_moves[w]) + 1
                      /\ ptn_moves'[w][Len(ptn_moves'[w])].mv = LineRead(w)[2]
                      /\ position'[w].plies = position[w].plies + 1
                      /\ game'[w] # None =>
                             /\ unwrap(game'[w]).moves = Len(ptn_moves'[w])
                             /\ unwrap(game'[w]).game_result_str =
                                    forfeit_win_str(Not(Mover(w)))
                 ELSE /\ ptn_moves'[w] = ptn_moves[w]
                      /\ position'[w] = position[w]
                      /\ game'[w] # None
                      /\ unwrap(game'[w]).moves = Len(ptn_moves[w])
                      /\ unwrap(game'[w]).game_result_str =
                             forfeit_win_str(Not(Mover(w)))]_vars

\* after an opening of one move Black has answered in time and White has
\* then made a legal move that overran its clock: the record of the forfeit
\* holds all three moves
C39_Witness ==
    \E w \in Workers :
        /\ pc[w] = "store"
        /\ OpeningOf(w).moves = 1
        /\ Len(ptn_moves[w]) = 3
        /\ unwrap(game[w]).moves = 3
        /\ unwrap(game[w]).game_result_str = "0-1"

\* the step stores the placeholder of a fatal error as the record of round r
StoresPlaceholder(r) == finished_games[r] = None /\ finished_games'[r] = Some(Placeholder)
\* the other round of the pair of round r
Partner(r) == IF r % 2 = 0 THEN r + 1 ELSE r - 1

\* C40: a placeholder stored for a round counts in print_score as one more
\* finished game and as one more draw, entered for both scheduled engines
\* against each other, with no win or loss added; and when its partner is
\* finished the pair is added to the pentanomial tally under the category
\* of a Draw next to the partner's result.
C40_PlaceholderIsDraw ==
    [][\A r \in Rounds :
          StoresPlaceholder(r) =>
              LET white == scheduled_games[r + 1].white_engine_id
                  black == scheduled_games[r + 1].black_engine_id
              IN  /\ count' = count + 1
                  /\ score'.draws = score.draws + 1
                  /\ score'.engine_draws =
                         [score.engine_draws EXCEPT ![<<white, black>>] = @ + 1,
                                                    ![<<black, white>>] = @ + 1]
                         \/ (white = black /\ score'.engine_draws =
                                [score.engine_draws EXCEPT ![<<white, black>>] = @ + 2])
                  /\ score'.engine_wins = score.engine_wins
                  /\ score'.engine_losses = score.engine_losses
                  /\ score'.white_wins = score.white_wins
                  /\ score'.black_wins = score.black_wins
                  /\ (tournament_type.kind = "Sprt" /\ Partner(r) \in Finished) =>
                         penta_after(num_chunks)' =
                             [penta_after(num_chunks) EXCEPT
                                 ![IF r % 2 = 0
                                   THEN TableCategory("Draw", TableResult(Partner(r)))
                                   ELSE TableCategory(TableResult(Partner(r)), "Draw")] = @ + 1]
                  /\ (tournament_type.kind = "Sprt" /\ Partner(r) \notin Finished) =>
                         penta_after(num_chunks)' = penta_after(num_chunks)]_vars

\* an SPRT pair of a placeholder and a game won by White, printed: one draw
\* in the standings and the pair under wd
C40_Witness ==
    /\ tournament_type.kind = "Sprt"
    /\ num_games = 2
    /\ finished_games[0] = Some(Placeholder)
    /\ finished_games[1] = Some(Game(MaxPlies, "1-0", "", 1))
    /\ score.draws = 1 /\ score.white_wins = 1
    /\ sprt_penta_stats = Some([no_pairs EXCEPT !.wd = 1])
    /\ \A w \in Workers : pc[w] = "loop"

====
